---- MODULE Spec2Model ----
(***************************************************************************)
(* Rule evaluation engine of proxy-switcheroo: RuleEngine (rules.ts /      *)
(* the second unit of background/proxy.js) with its probe result cache,    *)
(* driven by the evaluation passes that BackgroundService starts from its  *)
(* event listeners.  JavaScript runs the synchronous code between two      *)
(* suspensions atomically; a pass is therefore split where it awaits an    *)
(* asynchronous probe.                                                     *)
(***************************************************************************)
EXTENDS Integers, Sequences, FiniteSets, TLC

VARIABLES rules, now, probeCache, pass,
          probeService, state, profiles, activeProfile, badge, orch, edits,
          applied, setCall, switches

vars == <<rules, now, probeCache, pass,
          probeService, state, profiles, activeProfile, badge, orch, edits,
          applied, setCall, switches>>

\* the variables outside the RuleEngine: ProbeService, the stored state and
\* profiles, ProxyService.activeProfile, the badge, BackgroundService, and
\* the history variable edits: the saveRule and deleteRule requests handled
outside == <<probeService, state, profiles, activeProfile, badge, orch, edits,
             applied, setCall, switches>>

\* applied, the last application of a helper or probe operation with its
\* arguments and its result; setCall, the local variables of the
\* handleSetState call; switches, the ProxyService.setActiveProfile calls
\* that are followed one by one
aside == <<applied, setCall, switches>>

----------------------------------------------------------------------------
(* Bounds of the model                                                     *)

\* largest number of rules in the stored rule set
MaxRules == 2
\* number of clock advances
MaxTicks == 1
\* milliseconds per clock advance
TickMs == 60000

(* Program constants                                                       *)

\* DEFAULT_OPTIONS.cacheTimeout
DefaultCacheTimeout == 60000
\* expectStatus default of testReachability
DefaultExpectStatus == 200

\* the evaluation passes that can be in flight together, named in the order
\* in which the event listeners (alarm, captive portal) start them
Passes == {"first", "second"}

----------------------------------------------------------------------------
(* Strings that JSON.stringify has to escape are sequences of one-character *)
(* strings; the serialised text is an ordinary string built with \o.       *)

EscapeChar(c) ==
  IF c = "\"" THEN "\\\""
  ELSE IF c = "\\" THEN "\\\\"
  ELSE c

RECURSIVE EscapeFrom(_, _)
EscapeFrom(cs, i) ==
  IF i > Len(cs) THEN "" ELSE EscapeChar(cs[i]) \o EscapeFrom(cs, i + 1)

\* JSON.stringify of a string: quoted, with quote and backslash escaped
JsonString(cs) == "\"" \o EscapeFrom(cs, 1) \o "\""

RECURSIVE JsonProps(_, _)
RECURSIVE JsonNumbers(_, _)
JsonNumbers(ns, i) ==
  IF i > Len(ns) THEN ""
  ELSE (IF i > 1 THEN "," ELSE "") \o ToString(ns[i]) \o JsonNumbers(ns, i + 1)

\* JSON.stringify of a property value: [s |-> chars], [n |-> number],
\* [b |-> boolean], [a |-> array of numbers], [o |-> properties of an object]
JsonValue(v) ==
  IF "s" \in DOMAIN v THEN JsonString(v.s)
  ELSE IF "n" \in DOMAIN v THEN ToString(v.n)
  ELSE IF "a" \in DOMAIN v THEN "[" \o JsonNumbers(v.a, 1) \o "]"
  ELSE IF "o" \in DOMAIN v THEN "{" \o JsonProps(v.o, 1) \o "}"
  ELSE IF v.b THEN "true" ELSE "false"

JsonProps(props, i) ==
  IF i > Len(props) THEN ""
  ELSE (IF i > 1 THEN "," ELSE "")
       \o JsonString(props[i].k) \o ":" \o JsonValue(props[i].v)
       \o JsonProps(props, i + 1)

\* JSON.stringify(trigger) of a trigger object: its own properties in
\* insertion order
JsonStringify(trigger) == "{" \o JsonProps(trigger.props, 1) \o "}"

\* mutant: the key names the trigger type only
CacheKey_TypeOnly(triggerType, trigger) == triggerType

\* const cacheKey = `${triggerType}_${JSON.stringify(trigger)}`
CacheKey(triggerType, trigger) == triggerType \o "_" \o JsonStringify(trigger)

\* const probeKey = `${rule.id}_${triggerType}`
ProbeKey(ruleId, triggerType) == ruleId \o "_" \o triggerType

\* `${rule.id}_error`
ErrorKey(ruleId) == ruleId \o "_error"

----------------------------------------------------------------------------
(* Triggers and rules.  A trigger is a JavaScript object (props: its       *)
(* properties in insertion order) or null; rule.when is an object          *)
(* (entries: its keys in insertion order) or null.  Rules reach the store  *)
(* from the options page and from importConfig, which does not validate.   *)

Obj(props) == [isNull |-> FALSE, props |-> props]
NullTrigger == [isNull |-> TRUE, props |-> <<>>]
P(k, v) == [k |-> k, v |-> v]
Str(cs) == [s |-> cs]
Num(n) == [n |-> n]
Bool(b) == [b |-> b]
Arr(ns) == [a |-> ns]
ObjVal(props) == [o |-> props]
StrArr(ss) == [sa |-> ss]

K_value == <<"v", "a", "l", "u", "e">>
K_url == <<"u", "r", "l">>
K_method == <<"m", "e", "t", "h", "o", "d">>
K_expectStatus == <<"e", "x", "p", "e", "c", "t", "S", "t", "a", "t", "u", "s">>
V_GET == <<"G", "E", "T">>

HasProp(trigger, key) == \E i \in 1..Len(trigger.props) : trigger.props[i].k = key
Prop(trigger, key) ==
  trigger.props[CHOOSE i \in 1..Len(trigger.props) : trigger.props[i].k = key].v

FlagTrue == Obj(<<P(K_value, Bool(TRUE))>>)
FlagFalse == Obj(<<P(K_value, Bool(FALSE))>>)
ReachA == Obj(<<P(K_url, Str(<<"a">>)), P(K_method, Str(V_GET))>>)
\* the same parameters as ReachA, keys inserted in the other order
ReachASwapped == Obj(<<P(K_method, Str(V_GET)), P(K_url, Str(<<"a">>))>>)
\* one property whose text contains the serialisation of ReachA's tail
ReachQuoted ==
  Obj(<<P(K_url, Str(<<"a", "\"", ",", "\"", "m", "e", "t", "h", "o", "d", "\"", ":", "\"", "G", "E", "T">>))>>)

When(entries) == [isObj |-> TRUE, entries |-> entries]
NullWhen == [isObj |-> FALSE, entries |-> <<>>]
T(type, trigger) == [type |-> type, trigger |-> trigger]

MkRule(id, enabled, priority, stopOnMatch, when, profile) ==
  [id |-> id, enabled |-> enabled, priority |-> priority,
   stopOnMatch |-> stopOnMatch, when |-> when,
   then |-> [setActiveProfile |-> profile]]

RuleCatalog ==
  << MkRule("r1", TRUE, 50, FALSE, When(<<T("manualFlag", FlagTrue)>>), "p1"),
     MkRule("r2", TRUE, 50, TRUE,
            When(<<T("reachability", ReachA), T("manualFlag", FlagTrue)>>), "p2"),
     MkRule("r3", TRUE, 30, FALSE,
            When(<<T("reachability", ReachASwapped), T("manualFlag", FlagFalse)>>), "p3"),
     MkRule("r4", FALSE, 1, FALSE, When(<<T("manualFlag", FlagTrue)>>), "p4"),
     MkRule("r5", TRUE, 10, FALSE, When(<<>>), "p5"),
     MkRule("r6", TRUE, 20, FALSE, When(<<T("bogus", FlagTrue)>>), "p6"),
     MkRule("r7", TRUE, 5, FALSE, NullWhen, "p7"),
     MkRule("r8", TRUE, 40, FALSE, When(<<T("manualFlag", NullTrigger)>>), "p8"),
     MkRule("r9", TRUE, 100, FALSE,
            When(<<T("timeWindow", FlagTrue), T("reachability", ReachQuoted)>>), "p9") >>

\* the rules of the catalog at the positions of idx, in that order
Pick(idx) == [i \in 1..Len(idx) |-> RuleCatalog[idx[i]]]

\* Object.values(rules) of a stored rule set: at most MaxRules rules with
\* distinct ids, in the insertion order of the catalog or in the reverse one
RuleSets ==
  UNION { { Pick(idx) : idx \in { ix \in [1..n -> 1..Len(RuleCatalog)] :
                                    \/ \A i \in 1..(n - 1) : ix[i] < ix[i + 1]
                                    \/ \A i \in 1..(n - 1) : ix[i] > ix[i + 1] } }
          : n \in 0..MaxRules }

----------------------------------------------------------------------------
(* Probe Executor (ProbeService).  A ProbeResult is {success, error,       *)
(* timestamp}; the diagnostic data payload is not modelled.  exec is a     *)
(* history field: the executor invocation that produced the result, named  *)
(* by the pass that made it and its number within that pass; NoExec for an *)
(* entry synthesised by a catch block.                                     *)

NoExec == [p |-> "none", n |-> 0]

Result(success, error, t, exec) ==
  [success |-> success, error |-> error, timestamp |-> t, exec |-> exec]

\* JavaScript truthiness of a property value
Truthy(v) ==
  IF "s" \in DOMAIN v THEN Len(v.s) > 0
  ELSE IF "n" \in DOMAIN v THEN v.n # 0
  ELSE IF "a" \in DOMAIN v THEN TRUE
  ELSE IF "o" \in DOMAIN v THEN TRUE
  ELSE IF "sa" \in DOMAIN v THEN TRUE
  ELSE v.b

\* const success = trigger.value
TestManualFlag(trigger, t, exec) ==
  Result(HasProp(trigger, K_value) /\ Truthy(Prop(trigger, K_value)), "", t, exec)

K_days == <<"d", "a", "y", "s">>
K_from == <<"f", "r", "o", "m">>
K_to == <<"t", "o">>

\* UTF-16 code unit of the characters of an "HH:MM" string
CharCode(c) == IF c = ":" THEN 58 ELSE 48 + (CHOOSE d \in 0..9 : ToString(d) = c)

RECURSIVE StrCmp(_, _, _)
\* comparison of two strings by code units: -1, 0 or 1
StrCmp(a, b, i) ==
  IF i > Len(a) /\ i > Len(b) THEN 0
  ELSE IF i > Len(a) THEN -1
  ELSE IF i > Len(b) THEN 1
  ELSE IF CharCode(a[i]) < CharCode(b[i]) THEN -1
  ELSE IF CharCode(a[i]) > CharCode(b[i]) THEN 1
  ELSE StrCmp(a, b, i + 1)

\* new Date() in the system time zone when Date.now() is t: the clock
\* starts (t = 0) on a Wednesday at 09:59:30
ClockStart == [day |-> 3, ms |-> 35970000]
GetDay(t) == (ClockStart.day + (ClockStart.ms + t) \div 86400000) % 7
GetHours(t) == ((ClockStart.ms + t) \div 3600000) % 24
GetMinutes(t) == ((ClockStart.ms + t) \div 60000) % 60
\* n.toString().padStart(2, '0')
PadStart2(n) == IF n < 10 THEN <<"0", ToString(n)>> ELSE <<ToString(n \div 10), ToString(n % 10)>>
\* `${hours}:${minutes}`
CurrentTime(t) == PadStart2(GetHours(t)) \o <<":">> \o PadStart2(GetMinutes(t))

K_length == <<"l", "e", "n", "g", "t", "h">>

\* trigger.days.length of a days value that is an array or an object; an
\* object without a numeric length gives undefined, and undefined > 0 is false
DaysLength(days) ==
  IF "a" \in DOMAIN days THEN Len(days.a)
  ELSE IF \E i \in 1..Len(days.o) : days.o[i].k = K_length /\ "n" \in DOMAIN days.o[i].v
  THEN (days.o[CHOOSE i \in 1..Len(days.o) : days.o[i].k = K_length]).v.n
  ELSE 0

\* trigger.days.includes is not a function: days is an object, not an array,
\* and its length is positive; testTimeWindow has no try block
TimeWindowThrows(trigger) ==
  /\ HasProp(trigger, K_days)
  /\ "o" \in DOMAIN Prop(trigger, K_days)
  /\ DaysLength(Prop(trigger, K_days)) > 0

\* testTimeWindow of a trigger whose days is absent, an array of numbers or
\* an object, when it does not throw
TestTimeWindow(trigger, t, exec) ==
  LET currentDay == IF GetDay(t) = 0 THEN 7 ELSE GetDay(t)
      currentTime == CurrentTime(t)
      daysOk ==
        IF HasProp(trigger, K_days) /\ DaysLength(Prop(trigger, K_days)) > 0
        THEN \E i \in 1..Len(Prop(trigger, K_days).a) : Prop(trigger, K_days).a[i] = currentDay
        ELSE TRUE
      rangeOk ==
        IF /\ HasProp(trigger, K_from) /\ Truthy(Prop(trigger, K_from))
           /\ HasProp(trigger, K_to) /\ Truthy(Prop(trigger, K_to))
        THEN /\ StrCmp(currentTime, Prop(trigger, K_from).s, 1) >= 0
             /\ StrCmp(currentTime, Prop(trigger, K_to).s, 1) <= 0
        ELSE TRUE
  IN  Result(daysOk /\ rangeOk, "", t, exec)

SyncTypes == {"timeWindow", "manualFlag"}
AsyncTypes == {"reachability", "dnsResolve", "captivePortal", "ipInfo"}

\* what the network facility answers to an asynchronous probe: an HTTP
\* status, or 0 when the request fails (network error, abort, timeout)
NetOutcomes == {200, 0}

\* testReachability: success iff response.status === (trigger.expectStatus || 200)
TestReachability(trigger, net, t, exec) ==
  LET expectStatus ==
        IF HasProp(trigger, K_expectStatus) /\ Truthy(Prop(trigger, K_expectStatus))
        THEN Prop(trigger, K_expectStatus).n
        ELSE DefaultExpectStatus
  IN  IF net = 0 THEN Result(FALSE, "NetworkError", t, exec)
      ELSE Result(net = expectStatus, "", t, exec)

\* testIpInfo of a trigger without expectOrg / expectCountry, and the
\* outcome classes of testDnsResolve and testCaptivePortal: facility
\* failure, a non-OK answer, or an answer meeting the expectation
TestOther(net, t, exec) ==
  IF net = 0 THEN Result(FALSE, "NetworkError", t, exec)
  ELSE IF net # 200 THEN Result(FALSE, "HTTP 404", t, exec)
  ELSE Result(TRUE, "", t, exec)

AsyncResult(triggerType, trigger, net, t, exec) ==
  IF triggerType = "reachability" THEN TestReachability(trigger, net, t, exec)
  ELSE TestOther(net, t, exec)

----------------------------------------------------------------------------
(* Rule Evaluator (RuleEngine)                                             *)

DEFAULT_OPTIONS ==
  [timeout |-> 30000, enableCache |-> TRUE, cacheTimeout |-> DefaultCacheTimeout]

\* mutant: a rule is placed before the rules of equal priority
InsertByPriority_BeforeEqual(sorted, rule) ==
  LET k == Cardinality({ i \in 1..Len(sorted) : sorted[i].priority < rule.priority })
  IN  SubSeq(sorted, 1, k) \o <<rule>> \o SubSeq(sorted, k + 1, Len(sorted))

\* position of a rule in the output of the stable sort, given the rules
\* already placed: behind every rule whose priority is not larger
InsertByPriority(sorted, rule) ==
  LET k == Cardinality({ i \in 1..Len(sorted) : sorted[i].priority <= rule.priority })
  IN  SubSeq(sorted, 1, k) \o <<rule>> \o SubSeq(sorted, k + 1, Len(sorted))

RECURSIVE SortFrom(_, _, _)
SortFrom(rs, i, sorted) ==
  IF i > Len(rs) THEN sorted ELSE SortFrom(rs, i + 1, InsertByPriority(sorted, rs[i]))

\* mutant: the rules are left in the order of the rule set
SortByPriority_Unsorted(rs) == rs

\* .sort((a, b) => a.priority - b.priority), a stable sort
SortByPriority(rs) == SortFrom(rs, 1, <<>>)

\* mutant: the filter lets every rule through
IsEnabled_Always(rule) == TRUE

IsEnabled(rule) == rule.enabled

\* mutant: the rules are sorted but not filtered
EnabledRules_Unfiltered(rs) == SortByPriority(rs)

\* Object.values(rules).filter(rule => rule.enabled).sort(...)
EnabledRules(rs) == SortByPriority(SelectSeq(rs, IsEnabled))

\* the local variables of one engine call (kind: evaluateRules or
\* testRule).  inflight and ret hold zero or one record.  History fields:
\* input, the rule set the call was made with; trace, its getProbeResult
\* calls; execs, how many of them ran a probe
IdlePass ==
  [pc |-> "idle", kind |-> "none", opts |-> DEFAULT_OPTIONS, startTime |-> 0, execs |-> 0,
   input |-> <<>>,
   enabledRules |-> <<>>, ri |-> 0, ti |-> 0,
   results |-> <<>>, overallMatch |-> TRUE, allResults |-> <<>>,
   inflight |-> <<>>, trace |-> <<>>, ret |-> <<>>]

\* mutant: a rule without triggers is evaluated like any other rule
HasNoTriggers_Never(triggerKeys) == FALSE

\* if (triggerKeys.length === 0)
HasNoTriggers(triggerKeys) == Len(triggerKeys) = 0

\* mutant: a match ends the scan only for a rule with stopOnMatch
ReturnsMatch_IfStopOnMatch(rule, ruleResults) == ruleResults.matched /\ rule.stopOnMatch

\* mutant: the match of a rule with stopOnMatch does not end the scan
ReturnsMatch_UnlessStopOnMatch(rule, ruleResults) == ruleResults.matched /\ ~rule.stopOnMatch

\* if (ruleResults.matched)
ReturnsMatch(rule, ruleResults) == ruleResults.matched

\* the catch block of evaluateRules: allResults[`${rule.id}_error`] = ...
CatchInEvaluateRules(allResults, rule, errorMessage, t) ==
  (ErrorKey(rule.id) :> Result(FALSE, errorMessage, t, NoExec)) @@ allResults

RECURSIVE NextPoint(_, _)
\* Runs the synchronous code of evaluateRules / evaluateRule from position
\* (ri, ti) to the next getProbeResult call or to the return statement.
\* ti = 0: evaluateRule(rule) is about to be called; ti = Len + 1: the
\* trigger loop of the rule has ended.  t is Date.now().
NextPoint(L, t) ==
  IF L.ri > Len(L.enabledRules)
  THEN [L EXCEPT !.pc = "done",
                 !.ret = <<[matched |-> FALSE, results |-> L.allResults,
                            evaluationTime |-> t - L.startTime]>>]
  ELSE
    LET rule == L.enabledRules[L.ri] IN
    IF L.ti = 0
    THEN IF ~rule.when.isObj
         THEN \* Object.keys(rule.when) throws a TypeError
              NextPoint([L EXCEPT !.allResults = CatchInEvaluateRules(@, rule, "TypeError", t),
                                  !.ri = @ + 1], t)
         ELSE IF HasNoTriggers(rule.when.entries)
         THEN \* return { matched: false, results }
              NextPoint([L EXCEPT !.ri = @ + 1], t)
         ELSE NextPoint([L EXCEPT !.ti = 1, !.results = <<>>, !.overallMatch = TRUE], t)
    ELSE IF L.ti > Len(rule.when.entries)
    THEN LET ruleResults == [matched |-> L.overallMatch, results |-> L.results]
             merged == ruleResults.results @@ L.allResults
         IN
         IF ReturnsMatch(rule, ruleResults)
         THEN [L EXCEPT !.pc = "done", !.allResults = merged, !.results = <<>>,
                        !.ret = <<[matched |-> TRUE, rule |-> rule,
                                   profileId |-> rule.then.setActiveProfile,
                                   results |-> merged,
                                   evaluationTime |-> t - L.startTime]>>]
         ELSE NextPoint([L EXCEPT !.allResults = merged, !.results = <<>>,
                                  !.ri = @ + 1, !.ti = 0], t)
    ELSE IF rule.when.entries[L.ti].trigger.isNull
    THEN \* if (!trigger) continue
         NextPoint([L EXCEPT !.ti = @ + 1], t)
    ELSE [L EXCEPT !.pc = "call"]

CurrentRule(L) == L.enabledRules[L.ri]
CurrentEntry(L) == CurrentRule(L).when.entries[L.ti]

\* mutant: overallMatch follows the last trigger instead of all triggers
Deliver_LastTriggerWins(L, result, entry, t) ==
  NextPoint([L EXCEPT !.results = (ProbeKey(CurrentRule(L).id, CurrentEntry(L).type) :> result) @@ @,
                      !.overallMatch = result.success,
                      !.ti = @ + 1,
                      !.inflight = <<>>,
                      !.trace = Append(@, entry)], t)

\* mutant: the trigger loop of a rule ends at the first failed trigger
Deliver_StopsAtFailure(L, result, entry, t) ==
  NextPoint([L EXCEPT !.results = (ProbeKey(CurrentRule(L).id, CurrentEntry(L).type) :> result) @@ @,
                      !.overallMatch = @ /\ result.success,
                      !.ti = IF result.success THEN @ + 1
                             ELSE Len(CurrentRule(L).when.entries) + 1,
                      !.inflight = <<>>,
                      !.trace = Append(@, entry)], t)

\* results[probeKey] = result, the update of overallMatch, and on to the
\* next trigger; entry is the history record of the call
Deliver(L, result, entry, t) ==
  NextPoint([L EXCEPT !.results = (ProbeKey(CurrentRule(L).id, CurrentEntry(L).type) :> result) @@ @,
                      !.overallMatch = @ /\ result.success,
                      !.ti = @ + 1,
                      !.inflight = <<>>,
                      !.trace = Append(@, entry)], t)

\* mutant: the expiry comparison is reversed
CacheHit_Reversed(cache, cacheKey, opts, t) ==
  /\ opts.enableCache
  /\ cacheKey \in DOMAIN cache
  /\ cache[cacheKey].expiry < t

\* mutant: an entry is served whatever its expiry
CacheHit_IgnoresExpiry(cache, cacheKey, opts, t) ==
  /\ opts.enableCache
  /\ cacheKey \in DOMAIN cache

\* cached && cached.expiry > Date.now(), under options.enableCache
CacheHit(cache, cacheKey, opts, t) ==
  /\ opts.enableCache
  /\ cacheKey \in DOMAIN cache
  /\ cache[cacheKey].expiry > t

\* mutant: the entry is stored with the time of storing as its expiry
CacheStore_ExpiresAtOnce(cache, cacheKey, result, opts, t) ==
  IF opts.enableCache
  THEN (cacheKey :> [result |-> result, expiry |-> t]) @@ cache
  ELSE cache

\* this.probeCache.set(cacheKey, { result, expiry: Date.now() + options.cacheTimeout })
CacheStore(cache, cacheKey, result, opts, t) ==
  IF opts.enableCache
  THEN (cacheKey :> [result |-> result, expiry |-> t + opts.cacheTimeout]) @@ cache
  ELSE cache

\* history: the executor invocation whose unexpired entry the cache holds
\* under the key, NoExec if it holds none
FreshExec(cache, cacheKey, t) ==
  IF cacheKey \in DOMAIN cache /\ cache[cacheKey].expiry > t
  THEN cache[cacheKey].result.exec
  ELSE NoExec

TraceEntry(rule, e, made, hit, cachedExec, threw, opts, result) ==
  [ruleId |-> rule.id, type |-> e.type, trigger |-> e.trigger, made |-> made,
   hit |-> hit, cachedExec |-> cachedExec, threw |-> threw,
   enableCache |-> opts.enableCache, result |-> result]

\* mutant: the error leaves evaluateRule and is caught by evaluateRules
CatchInEvaluateRule_Propagates(L, errorMessage, cachedExec, t) ==
  NextPoint([L EXCEPT !.allResults = CatchInEvaluateRules(@, CurrentRule(L), errorMessage, t),
                      !.results = <<>>,
                      !.trace = Append(@, TraceEntry(CurrentRule(L), CurrentEntry(L), t, FALSE,
                                                     cachedExec, TRUE, L.opts,
                                                     Result(FALSE, errorMessage, t, NoExec))),
                      !.ri = @ + 1, !.ti = 0], t)

\* the catch block of evaluateRule around getProbeResult:
\* results[probeKey] = { success: false, error }, overallMatch = false
CatchInEvaluateRule(L, errorMessage, cachedExec, t) ==
  LET result == Result(FALSE, errorMessage, t, NoExec) IN
  Deliver(L, result,
          TraceEntry(CurrentRule(L), CurrentEntry(L), t, FALSE, cachedExec, TRUE, L.opts, result),
          t)

\* the synchronous probe throws
SyncThrows(triggerType, trigger) ==
  triggerType = "timeWindow" /\ TimeWindowThrows(trigger)

SyncResult(triggerType, trigger, t, exec) ==
  IF triggerType = "timeWindow"
  THEN TestTimeWindow(trigger, t, exec)
  ELSE TestManualFlag(trigger, t, exec)

----------------------------------------------------------------------------
(* The services around the RuleEngine, as they are after construction      *)

\* ProbeService: abortControllers maps a probe id to the AbortController
\* registered under it, a controller being named by the probe invocation
\* that created it; aborted holds the controllers whose signal is aborted.
\* History fields: calls, the number of abortAllProbes calls; seen, the
\* asynchronous probes that were in flight at one of them
NewProbeService ==
  [abortControllers |-> <<>>, aborted |-> {}, calls |-> 0, seen |-> {}]

\* an optional field that is not set
Undefined == "undefined"

\* StorageService.DEFAULT_STATE
DEFAULT_STATE ==
  [autoMode |-> TRUE, lastCheckTime |-> 0,
   lastRuleMatched |-> Undefined, activeProfileId |-> Undefined]

\* the ids of StorageService.DEFAULT_PROFILES
DEFAULT_PROFILES == {"direct", "system", "work-proxy"}

\* the local variables of one BackgroundService.evaluateRules call: stage
\* is "record" up to the updateState call of evaluateRules, "activate"
\* inside setActiveProfile and up to its badge, "notify" after it; text is
\* the argument of the pending updateBadge call.  History fields:
\* sawAutoMode, what the call read ("unread", "on", "off"); loaded, the rule set getRules returned
\* (zero or one); writes, the states the call wrote; sapCalls, the
\* arguments of its setActiveProfile calls; caught, whether the catch block
\* ran; activationFailed, whether setActiveProfile threw; matched, what the
\* engine returned; checkedAt, the Date.now() put in updateData; shown, the
\* badge text the call set last; outcome, how the promise of the call settled;
\* forced, whether handleForceEvaluation made the call; staleRuns, the probes
\* that were in flight when it cleared the cache
IdleCall ==
  [pc |-> "idle", stage |-> "record", updates |-> <<>>, currentState |-> <<>>,
   forced |-> FALSE, staleRuns |-> {},
   profileId |-> "", text |-> "",
   sawAutoMode |-> "unread", loaded |-> <<>>, writes |-> <<>>, sapCalls |-> <<>>,
   caught |-> FALSE, activationFailed |-> FALSE, matched |-> FALSE,
   checkedAt |-> -1,
   shown |-> "none", outcome |-> "pending"]

\* no helper operation has been applied
NotApplied == [op |-> "none"]

\* the local variables of the handleSetState call: updates is its argument
\* (data), currentState what its updateState read, wrote whether its
\* updateState has written
IdleSetCall == [pc |-> "idle", updates |-> <<>>, currentState |-> <<>>, wrote |-> FALSE]

\* number of setActiveProfile requests that are followed one by one
MaxRequests == 2

\* the setActiveProfile calls that can be pending at a time; a storage write
\* whose change event needs a slot completes when one is free
Slots == 1..(MaxRequests + 1)

\* no setActiveProfile call is pending.  History fields: requested, the
\* number of requests; last, the id of the last request; threw, whether a
\* call has thrown
FreeSlot == [pc |-> "free"]
NoSwitches ==
  [calls |-> [s \in Slots |-> FreeSlot], requested |-> 0, last |-> "none", threw |-> FALSE]

\* everything outside the RuleEngine right after construction
OutsideInit ==
  /\ probeService = NewProbeService
  /\ state = DEFAULT_STATE
  /\ profiles = DEFAULT_PROFILES
  /\ activeProfile = "null"
  /\ badge = ""
  /\ orch = [p \in Passes |-> IdleCall]
  /\ edits = 0
  /\ applied = NotApplied
  /\ setCall = IdleSetCall
  /\ switches = NoSwitches

----------------------------------------------------------------------------
Init ==
  /\ rules \in RuleSets
  /\ now = 0
  /\ probeCache = <<>>
  /\ pass = [p \in Passes |-> IdlePass]
  /\ OutsideInit

RECURSIVE Run(_, _, _)
\* Pass p runs from a getProbeResult call to its next suspension: the await
\* of an asynchronous probe, or the return of evaluateRules.  S holds the
\* locals of the pass (L) and the cache; t is Date.now().
Run(p, S, t) ==
  IF S.L.pc # "call" THEN S
  ELSE
    LET L == S.L
        rule == CurrentRule(L)
        e == CurrentEntry(L)
        \* getProbeResult(triggerType, trigger, opts)
        cacheKey == CacheKey(e.type, e.trigger)
        cachedExec == FreshExec(S.cache, cacheKey, t)
        exec == [p |-> p, n |-> L.execs + 1]
    IN
    IF CacheHit(S.cache, cacheKey, L.opts, t)
    THEN Run(p, [S EXCEPT !.L = Deliver(L, S.cache[cacheKey].result,
                                        TraceEntry(rule, e, t, TRUE, cachedExec, FALSE, L.opts,
                                                   S.cache[cacheKey].result), t)], t)
    ELSE IF e.type \in AsyncTypes
    THEN \* await probeService.test...(trigger)
         [S EXCEPT !.L.pc = "await",
                   !.L.execs = @ + 1,
                   !.L.inflight = <<[type |-> e.type, trigger |-> e.trigger,
                                     exec |-> exec, made |-> t,
                                     cachedExec |-> cachedExec]>>]
    ELSE IF e.type \in SyncTypes /\ SyncThrows(e.type, e.trigger)
    THEN Run(p, [S EXCEPT !.L = CatchInEvaluateRule(L, "trigger.days.includes is not a function",
                                                    cachedExec, t)], t)
    ELSE IF e.type \in SyncTypes
    THEN LET result == SyncResult(e.type, e.trigger, t, exec) IN
         Run(p, [L |-> Deliver([L EXCEPT !.execs = @ + 1], result,
                               TraceEntry(rule, e, t, FALSE, cachedExec, FALSE, L.opts, result), t),
                 cache |-> CacheStore(S.cache, cacheKey, result, L.opts, t)], t)
    ELSE \* default: throw new Error(`Unknown trigger type: ${triggerType}`)
         Run(p, [S EXCEPT !.L = CatchInEvaluateRule(L, "Unknown trigger type: " \o e.type,
                                                    cachedExec, t)], t)

\* evaluateRules(rules, options) from its call to its first suspension
EvaluateRules(p, rs, options, cache, t) ==
  LET enabledRules == EnabledRules(rs) IN
  IF Len(enabledRules) = 0
  THEN [L |-> [IdlePass EXCEPT !.pc = "done", !.kind = "evaluateRules",
                               !.opts = options, !.startTime = t,
                               !.input = rs,
                               !.ret = <<[matched |-> FALSE, results |-> <<>>,
                                          evaluationTime |-> t - t]>>],
        cache |-> cache]
  ELSE Run(p, [L |-> NextPoint([IdlePass EXCEPT !.kind = "evaluateRules",
                                                !.opts = options, !.startTime = t,
                                                !.input = rs,
                                                !.enabledRules = enabledRules,
                                                !.ri = 1, !.ti = 0], t),
               cache |-> cache], t)

\* BackgroundService.evaluateRules calls ruleEngine.evaluateRules(rules)
\* with the stored rule set and the default options
StartPass(p) ==
  /\ pass[p].pc = "idle"
  /\ p = "second" => pass["first"].pc # "idle"
  /\ LET S == EvaluateRules(p, rules, DEFAULT_OPTIONS, probeCache, now)
     IN  /\ pass' = [pass EXCEPT ![p] = S.L]
         /\ probeCache' = S.cache
  /\ UNCHANGED <<rules, now>>
  /\ UNCHANGED outside

\* the probe that call p awaits has resolved with result: getProbeResult
\* stores and returns it, and the call runs on to its next suspension
Resume(p, L, cache, result, t) ==
  LET f == L.inflight[1] IN
  Run(p, [L |-> Deliver(L, result,
                        TraceEntry(CurrentRule(L), CurrentEntry(L), f.made, FALSE,
                                   f.cachedExec, FALSE, L.opts, result), t),
          cache |-> CacheStore(cache, CacheKey(f.type, f.trigger), result, L.opts, t)], t)

\* the awaited probe resolves with what the facility answered; a failure
\* of the facility stands for network error, abort and timeout alike
ProbeComplete(p) ==
  /\ pass[p].pc = "await"
  /\ \E net \in NetOutcomes :
       LET L == pass[p]
           f == L.inflight[1]
           result == AsyncResult(f.type, f.trigger, net, now, f.exec)
           S == Resume(p, L, probeCache, result, now)
       IN  /\ pass' = [pass EXCEPT ![p] = S.L]
           /\ probeCache' = S.cache
  /\ UNCHANGED <<rules, now>>
  /\ UNCHANGED outside

\* clearCache()
ClearCache ==
  /\ probeCache' = <<>>
  /\ UNCHANGED <<rules, now, pass>>
  /\ UNCHANGED outside

\* the cache after cleanExpiredCache() at time t: the keys with
\* value.expiry <= now are deleted
Swept(cache, t) ==
  [k \in { key \in DOMAIN cache : ~(cache[key].expiry <= t) } |-> cache[k]]

\* cleanExpiredCache(), run by the interval timer of startCacheCleanup
CleanExpiredCache ==
  /\ probeCache' = Swept(probeCache, now)
  /\ UNCHANGED <<rules, now, pass>>
  /\ UNCHANGED outside

\* the wall clock advances
Tick ==
  /\ now < MaxTicks * TickMs
  /\ now' = now + TickMs
  /\ UNCHANGED <<rules, probeCache, pass>>
  /\ UNCHANGED outside

Next ==
  \/ \E p \in Passes : StartPass(p)
  \/ \E p \in Passes : ProbeComplete(p)
  \/ ClearCache
  \/ CleanExpiredCache
  \/ Tick

Spec == Init /\ [][Next]_vars

----------------------------------------------------------------------------
(* Vocabulary of the properties                                            *)

Done(p) == pass[p].pc = "done"
Ret(p) == pass[p].ret[1]
Started(p) == pass[p].pc # "idle"

\* positions of the enabled rules in the rule set a pass was called with
EnabledAt(rs) == { i \in 1..Len(rs) : rs[i].enabled }

\* rs[j] is evaluated after rs[i]: larger priority number, or the same one
\* and later in the rule set
SortsAfter(rs, i, j) ==
  \/ rs[j].priority > rs[i].priority
  \/ rs[j].priority = rs[i].priority /\ j > i

\* positions of the triggers of a rule that are not null
LiveTriggers(rule) ==
  { k \in 1..Len(rule.when.entries) : ~rule.when.entries[k].trigger.isNull }

\* every trigger of the rule has an entry in res and all of them succeeded
AllSucceeded(res, rule) ==
  /\ rule.when.isObj
  /\ Len(rule.when.entries) > 0
  /\ \A k \in LiveTriggers(rule) :
       /\ ProbeKey(rule.id, rule.when.entries[k].type) \in DOMAIN res
       /\ res[ProbeKey(rule.id, rule.when.entries[k].type)].success

\* the rule was evaluated and found not to match
EvaluatedNoMatch(res, rule) ==
  \/ ~rule.when.isObj /\ ErrorKey(rule.id) \in DOMAIN res
  \/ rule.when.isObj /\ Len(rule.when.entries) = 0
  \/ /\ rule.when.isObj
     /\ \A k \in LiveTriggers(rule) :
          ProbeKey(rule.id, rule.when.entries[k].type) \in DOMAIN res
     /\ \E k \in LiveTriggers(rule) :
          ~res[ProbeKey(rule.id, rule.when.entries[k].type)].success

\* the keys a rule can have in a results map
KeysOf(rule) ==
  {ErrorKey(rule.id)}
    \cup { ProbeKey(rule.id, rule.when.entries[k].type) : k \in 1..Len(rule.when.entries) }

\* no getProbeResult call was made for the rule and res has no entry of it
Untouched(p, res, rule) ==
  /\ \A n \in 1..Len(pass[p].trace) : pass[p].trace[n].ruleId # rule.id
  /\ KeysOf(rule) \cap DOMAIN res = {}

\* the results a pass has collected so far
Collected(p) == pass[p].results @@ pass[p].allResults

----------------------------------------------------------------------------
\* C1: evaluateRules returns the enabled rule with the lowest priority
\* number among the enabled rules that match (at least one trigger, all
\* triggers succeeded), with profileId = rule.then.setActiveProfile; every
\* enabled rule with a strictly lower priority number was evaluated and did
\* not match; when nothing is returned no enabled rule matched.
C1_LowestPriorityMatch ==
  \A p \in Passes : Done(p) =>
    LET rs == pass[p].input
        r == Ret(p)
    IN  IF r.matched
        THEN /\ \E i \in EnabledAt(rs) : rs[i] = r.rule
             /\ r.profileId = r.rule.then.setActiveProfile
             /\ AllSucceeded(r.results, r.rule)
             /\ \A j \in EnabledAt(rs) :
                  rs[j].priority < r.rule.priority => EvaluatedNoMatch(r.results, rs[j])
        ELSE \A j \in EnabledAt(rs) : EvaluatedNoMatch(r.results, rs[j])

\* a pass returned a rule that is not the first enabled rule of the rule
\* set: an earlier one has a larger priority number
C1_Witness ==
  \E p \in Passes :
    /\ Done(p) /\ Ret(p).matched
    /\ \E i, j \in EnabledAt(pass[p].input) :
         /\ i < j
         /\ pass[p].input[j] = Ret(p).rule
         /\ pass[p].input[i].priority > Ret(p).rule.priority

\* C2: a rule is returned as matched only if every trigger in its when
\* produced a result with success = true; a rule with a failing trigger is
\* never returned, wherever the failing trigger stands in when.
C2_AndSemantics ==
  \A p \in Passes : Done(p) /\ Ret(p).matched =>
    \A k \in LiveTriggers(Ret(p).rule) :
      LET key == ProbeKey(Ret(p).rule.id, Ret(p).rule.when.entries[k].type) IN
      /\ key \in DOMAIN Ret(p).results
      /\ Ret(p).results[key].success

\* a finished pass evaluated a rule whose first trigger succeeded and whose
\* second trigger failed, and another whose first failed and second
\* succeeded
C2_Witness ==
  \E p \in Passes, q \in Passes :
    /\ Done(p) /\ Done(q)
    /\ \E i \in EnabledAt(pass[p].input) :
         LET rule == pass[p].input[i] IN
         /\ Len(rule.when.entries) = 2 /\ LiveTriggers(rule) = {1, 2}
         /\ KeysOf(rule) \cap DOMAIN Ret(p).results # {}
         /\ Ret(p).results[ProbeKey(rule.id, rule.when.entries[1].type)].success
         /\ ~Ret(p).results[ProbeKey(rule.id, rule.when.entries[2].type)].success
    /\ \E i \in EnabledAt(pass[q].input) :
         LET rule == pass[q].input[i] IN
         /\ Len(rule.when.entries) = 2 /\ LiveTriggers(rule) = {1, 2}
         /\ KeysOf(rule) \cap DOMAIN Ret(q).results # {}
         /\ ~Ret(q).results[ProbeKey(rule.id, rule.when.entries[1].type)].success
         /\ Ret(q).results[ProbeKey(rule.id, rule.when.entries[2].type)].success

\* C3: once a rule has matched in a pass the scan stops: no getProbeResult
\* call is made for, and the results hold no entry of, any rule that sorts
\* after the matched rule.
C3_ScanStopsAtMatch ==
  \A p \in Passes : Started(p) =>
    LET rs == pass[p].input IN
    \A i, j \in EnabledAt(rs) :
      /\ AllSucceeded(pass[p].allResults, rs[i])
      /\ SortsAfter(rs, i, j)
      => /\ Untouched(p, Collected(p), rs[j])
         /\ Done(p) => Untouched(p, Ret(p).results, rs[j])

\* a pass returned a match while an enabled rule with triggers sorts after
\* the matched rule
C3_Witness ==
  \E p \in Passes :
    /\ Done(p) /\ Ret(p).matched
    /\ \E i, j \in EnabledAt(pass[p].input) :
         /\ pass[p].input[i] = Ret(p).rule
         /\ SortsAfter(pass[p].input, i, j)
         /\ LiveTriggers(pass[p].input[j]) # {}
         /\ LiveTriggers(pass[p].input[i]) # {}

\* C4: a rule with enabled = false is never probed and never returned, it
\* has no entry in the results, and it does not keep the enabled rules from
\* being evaluated: a pass that returns no match has evaluated every
\* enabled rule.
C4_DisabledIgnored ==
  \A p \in Passes : Started(p) =>
    LET rs == pass[p].input IN
    /\ \A i \in 1..Len(rs) : ~rs[i].enabled => Untouched(p, Collected(p), rs[i])
    /\ Done(p) /\ Ret(p).matched => Ret(p).rule.enabled
    /\ Done(p) /\ ~Ret(p).matched =>
         \A j \in EnabledAt(rs) : EvaluatedNoMatch(Ret(p).results, rs[j])

\* a pass returned an enabled rule although a disabled rule with a lower
\* priority number is in the rule set
C4_Witness ==
  \E p \in Passes :
    /\ Done(p) /\ Ret(p).matched
    /\ \E i \in 1..Len(pass[p].input) :
         /\ ~pass[p].input[i].enabled
         /\ pass[p].input[i].priority < Ret(p).rule.priority

\* C5: an enabled rule whose when is {} is never returned, whatever its
\* priority, and the rules after it are evaluated: a pass that returns no
\* match has evaluated every enabled rule.
C5_EmptyWhenNeverMatches ==
  \A p \in Passes : Done(p) =>
    /\ Ret(p).matched => Len(Ret(p).rule.when.entries) > 0
    /\ ~Ret(p).matched =>
         \A j \in EnabledAt(pass[p].input) : EvaluatedNoMatch(Ret(p).results, pass[p].input[j])

\* a pass returned a rule although an enabled rule with when = {} and a
\* lower priority number is in the rule set
C5_Witness ==
  \E p \in Passes :
    /\ Done(p) /\ Ret(p).matched
    /\ \E i \in EnabledAt(pass[p].input) :
         /\ pass[p].input[i].when.isObj
         /\ Len(pass[p].input[i].when.entries) = 0
         /\ pass[p].input[i].priority < Ret(p).rule.priority

\* the getProbeResult calls made so far, each named by pass and position
Calls == { c \in Passes \X (1..(2 * MaxRules + 1)) : c[2] <= Len(pass[c[1]].trace) }
Call(c) == pass[c[1]].trace[c[2]]

C7_NoEnabledRules ==
  \A p \in Passes : Done(p) /\ EnabledAt(pass[p].input) = {} =>
    /\ DOMAIN Ret(p) = {"matched", "results", "evaluationTime"}
    /\ ~Ret(p).matched
    /\ DOMAIN Ret(p).results = {}
    /\ Ret(p).evaluationTime >= 0
    /\ pass[p].trace = <<>>
    /\ pass[p].execs = 0
    /\ DOMAIN pass[p].allResults = {}

\* a pass finished on a rule set that holds only a disabled rule
C7_Witness ==
  \E p \in Passes :
    /\ Done(p)
    /\ Len(pass[p].input) > 0
    /\ EnabledAt(pass[p].input) = {}

\* two calls ask for the same trigger type with identical parameters
SameLookup(a, b) == a.type = b.type /\ a.trigger = b.trigger

Abs(x) == IF x < 0 THEN -x ELSE x

\* C8 as claimed: two cache-enabled lookups of the same trigger type and
\* parameters made within the TTL of each other return the identical
\* ProbeResult of one executor invocation.
C8_Original ==
  \A c, d \in Calls :
    /\ c # d
    /\ SameLookup(Call(c), Call(d))
    /\ Call(c).enableCache /\ Call(d).enableCache
    /\ ~Call(c).threw /\ ~Call(d).threw
    /\ Abs(Call(c).made - Call(d).made) < DefaultCacheTimeout
    => Call(c).result = Call(d).result

\* C8 amended: when a cache-enabled lookup is made while the cache holds the
\* unexpired entry that an earlier cache-enabled lookup of the same trigger
\* type and parameters stored, the executor is not invoked again and the
\* lookup returns the identical ProbeResult; the entry is unexpired from the
\* time it was stored until cacheTimeout later.
C8_FreshEntryServed ==
  \A c, d \in Calls :
    /\ SameLookup(Call(c), Call(d))
    /\ Call(c).enableCache /\ Call(d).enableCache
    /\ ~Call(c).hit /\ ~Call(c).threw
    /\ Call(d).cachedExec = Call(c).result.exec
    => /\ Call(d).hit
       /\ Call(d).result = Call(c).result
       /\ Call(c).result.timestamp <= Call(d).made
       /\ Call(d).made < Call(c).result.timestamp + DefaultCacheTimeout

\* a reachability lookup of one pass was served the result that the
\* reachability probe of the other pass had stored
C8_Witness ==
  \E c, d \in Calls :
    /\ c[1] # d[1]
    /\ Call(c).type = "reachability"
    /\ SameLookup(Call(c), Call(d))
    /\ ~Call(c).hit /\ Call(d).hit
    /\ Call(d).cachedExec = Call(c).result.exec
    /\ Call(d).result = Call(c).result

\* C9: lookups that differ in trigger type or in parameters have different
\* cache keys, and a lookup served from the cache gets a result that a
\* probe of exactly its trigger type and parameters produced.
C9_CacheIsolation ==
  /\ \A c, d \in Calls :
       CacheKey(Call(c).type, Call(c).trigger) = CacheKey(Call(d).type, Call(d).trigger)
         => SameLookup(Call(c), Call(d))
  /\ \A d \in Calls : Call(d).hit =>
       \E c \in Calls :
         /\ ~Call(c).hit /\ ~Call(c).threw
         /\ Call(c).result = Call(d).result
         /\ SameLookup(Call(c), Call(d))

\* within one pass and one TTL window, a lookup ran its own probe after a
\* lookup of the same type with other parameters, and another ran its own
\* probe after a lookup of another type with the same parameters
C9_Witness ==
  \E p \in Passes :
    /\ \E m, n \in 1..Len(pass[p].trace) :
         LET a == pass[p].trace[m]
             b == pass[p].trace[n]
         IN  /\ m < n /\ a.type = b.type /\ a.trigger # b.trigger
             /\ a.enableCache /\ b.enableCache /\ ~a.hit /\ ~b.hit
             /\ b.made < a.result.timestamp + DefaultCacheTimeout
    /\ \E m, n \in 1..Len(pass[p].trace) :
         LET a == pass[p].trace[m]
             b == pass[p].trace[n]
         IN  /\ m < n /\ a.type # b.type /\ a.trigger = b.trigger
             /\ a.enableCache /\ b.enableCache /\ ~a.hit /\ ~b.hit
             /\ b.made < a.result.timestamp + DefaultCacheTimeout

\* the parameters of two trigger objects are structurally equal
SameParams(t1, t2) ==
  { t1.props[i] : i \in 1..Len(t1.props) } = { t2.props[i] : i \in 1..Len(t2.props) }

\* C10 as claimed: structurally equal trigger parameter objects have the
\* same cache key whatever the insertion order of their keys.
C10_KeyOrderIndependent ==
  \A c, d \in Calls :
    Call(c).type = Call(d).type /\ SameParams(Call(c).trigger, Call(d).trigger)
      => CacheKey(Call(c).type, Call(c).trigger) = CacheKey(Call(d).type, Call(d).trigger)

----------------------------------------------------------------------------
(* ProbeService with its AbortControllers and timeouts, under the engine   *)
(* calls evaluateRules and testRule                                        *)

\* number of abortAllProbes calls
MaxAborts == 1

\* ProbeService.DEFAULT_TIMEOUTS
DnsTimeout == 5000
ReachabilityTimeout == 10000
IpInfoTimeout == 15000
DEFAULT_TIMEOUTS ==
  [dns |-> DnsTimeout, reachability |-> ReachabilityTimeout, ipInfo |-> IpInfoTimeout]

\* the probes that create an AbortController and a setTimeout aborting it
HasController(triggerType) == triggerType \in {"reachability", "ipInfo"}

\* this.timeouts.reachability / this.timeouts.ipInfo
TimeoutOf(triggerType) ==
  IF triggerType = "reachability" THEN DEFAULT_TIMEOUTS.reachability
  ELSE DEFAULT_TIMEOUTS.ipInfo

\* `reachability-${Date.now()}` / `ipinfo-${Date.now()}`
ProbeId(triggerType, t) ==
  (IF triggerType = "reachability" THEN "reachability" ELSE "ipinfo") \o "-" \o ToString(t)

Range(fn) == { fn[k] : k \in DOMAIN fn }

\* this.abortControllers.set(probeId, controller), when the call has just
\* entered testReachability or testIpInfo
Register(ps, L, t) ==
  IF L.pc = "await" /\ HasController(L.inflight[1].type)
  THEN [ps EXCEPT !.abortControllers =
                     (ProbeId(L.inflight[1].type, t) :> L.inflight[1].exec) @@ @]
  ELSE ps

\* this.abortControllers.delete(probeId) of the probe f that has settled
Unregister(ps, f) ==
  IF HasController(f.type)
  THEN [ps EXCEPT !.abortControllers =
                     [k \in DOMAIN @ \ {ProbeId(f.type, f.made)} |-> @[k]],
                  !.aborted = @ \ {f.exec}]
  ELSE ps

K_hostname == <<"h", "o", "s", "t", "n", "a", "m", "e">>
DnsH == Obj(<<P(K_hostname, Str(<<"h">>))>>)
\* a reachability trigger that expects another status than the facility gives
ReachExpect204 == Obj(<<P(K_url, Str(<<"a">>)), P(K_expectStatus, Num(204))>>)
\* a timeWindow trigger whose days is an object, as an imported file can hold
DaysObject == Obj(<<P(K_days, ObjVal(<<P(K_length, Num(1))>>))>>)

ProbeCatalog ==
  << MkRule("k1", TRUE, 10, FALSE, When(<<T("reachability", ReachA)>>), "p1"),
     MkRule("k2", TRUE, 20, FALSE, When(<<T("dnsResolve", DnsH)>>), "p2"),
     MkRule("k3", TRUE, 30, FALSE,
            When(<<T("timeWindow", DaysObject), T("reachability", ReachExpect204)>>), "p3") >>

\* the stored rule sets: the non-empty selections of at most MaxRules rules
\* of the catalog, in its order
ProbeRuleSets ==
  UNION { { [i \in 1..n |-> ProbeCatalog[idx[i]]] :
              idx \in { ix \in [1..n -> 1..Len(ProbeCatalog)] :
                          \A i \in 1..(n - 1) : ix[i] < ix[i + 1] } }
          : n \in 1..MaxRules }

ProbeInit ==
  /\ rules \in ProbeRuleSets
  /\ now = 0
  /\ probeCache = <<>>
  /\ pass = [p \in Passes |-> IdlePass]
  /\ OutsideInit

\* mutant: the rule test runs with the default options
TestRuleOptions_CacheOn == DEFAULT_OPTIONS

\* evaluateRule(rule, { enableCache: false }) with
\* opts = { ...this.DEFAULT_OPTIONS, ...options }
TestRuleOptions == [DEFAULT_OPTIONS EXCEPT !.enableCache = FALSE]

\* the return statements of testRule, once evaluateRule has returned
Finish(L) ==
  IF L.kind = "testRule" /\ L.pc = "done" /\ "matched" \in DOMAIN L.ret[1]
  THEN [L EXCEPT !.ret = <<[success |-> L.ret[1].matched, results |-> L.ret[1].results]>>]
  ELSE L

\* testRule(rule) from its call to its first suspension
TestRuleCall(p, rule, cache, t) ==
  LET L0 == [IdlePass EXCEPT !.kind = "testRule", !.opts = TestRuleOptions,
                             !.startTime = t, !.input = <<rule>>,
                             !.enabledRules = <<rule>>, !.ri = 1, !.ti = 0]
  IN  IF ~rule.when.isObj
      THEN \* Object.keys(rule.when) throws; the catch block of testRule
           [L |-> [L0 EXCEPT !.pc = "done",
                             !.ret = <<[success |-> FALSE, results |-> <<>>,
                                        error |-> "TypeError"]>>],
            cache |-> cache]
      ELSE LET S == Run(p, [L |-> NextPoint(L0, t), cache |-> cache], t)
           IN  [S EXCEPT !.L = Finish(S.L)]

\* ruleEngine.evaluateRules(rules) is called with the stored rule set
StartEvaluation(p) ==
  /\ pass[p].pc = "idle"
  /\ p = "second" => pass["first"].pc # "idle"
  /\ LET S == EvaluateRules(p, rules, DEFAULT_OPTIONS, probeCache, now)
     IN  /\ pass' = [pass EXCEPT ![p] = S.L]
         /\ probeCache' = S.cache
         /\ probeService' = Register(probeService, S.L, now)
  /\ UNCHANGED <<rules, now, state, profiles, activeProfile, badge, orch, edits, aside>>

\* handleTestRule: ruleEngine.testRule(data), data a rule of the options page
TestRule(p) ==
  /\ pass[p].pc = "idle"
  /\ p = "second" => pass["first"].pc # "idle"
  /\ \E i \in 1..Len(ProbeCatalog) :
       LET S == TestRuleCall(p, ProbeCatalog[i], probeCache, now)
       IN  /\ pass' = [pass EXCEPT ![p] = S.L]
           /\ probeCache' = S.cache
           /\ probeService' = Register(probeService, S.L, now)
  /\ UNCHANGED <<rules, now, state, profiles, activeProfile, badge, orch, edits, aside>>

\* the probe that call p awaits settles with result: its controller is
\* unregistered, the call runs on, and a fetch probe it then starts
\* registers its own controller
Settle(p, result) ==
  LET L == pass[p]
      S == Resume(p, L, probeCache, result, now)
  IN  /\ pass' = [pass EXCEPT ![p] = Finish(S.L)]
      /\ probeCache' = S.cache
      /\ probeService' = Register(Unregister(probeService, L.inflight[1]), S.L, now)
      /\ UNCHANGED <<rules, now, state, profiles, activeProfile, badge, orch, edits, aside>>

\* the facility answers (a status) or fails (0) before any abort
FacilityResponds(p) ==
  /\ pass[p].pc = "await"
  /\ pass[p].inflight[1].exec \notin probeService.aborted
  /\ \E net \in NetOutcomes :
       Settle(p, AsyncResult(pass[p].inflight[1].type, pass[p].inflight[1].trigger,
                             net, now, pass[p].inflight[1].exec))

\* fetch rejects with an AbortError because the signal of the probe's
\* controller is aborted; the catch block of the probe returns the failure
FetchAborted(p) ==
  /\ pass[p].pc = "await"
  /\ pass[p].inflight[1].exec \in probeService.aborted
  /\ Settle(p, Result(FALSE, "The operation was aborted", now, pass[p].inflight[1].exec))

\* the setTimeout callback of the probe that call p awaits: controller.abort()
TimeoutFires(p) ==
  /\ pass[p].pc = "await"
  /\ HasController(pass[p].inflight[1].type)
  /\ now >= pass[p].inflight[1].made + TimeoutOf(pass[p].inflight[1].type)
  /\ pass[p].inflight[1].exec \notin probeService.aborted
  /\ probeService' = [probeService EXCEPT !.aborted = @ \cup {pass[p].inflight[1].exec}]
  /\ UNCHANGED <<rules, now, probeCache, pass, state, profiles, activeProfile, badge, orch, edits, aside>>

\* the asynchronous probes in flight
InFlight == { pass[p].inflight[1].exec : p \in { q \in Passes : pass[q].pc = "await" } }

\* mutant: abortAllProbes also clears the probe cache
AbortAllProbes_ClearsCache ==
  /\ probeService.calls < MaxAborts
  /\ probeService' = [abortControllers |-> <<>>,
                      aborted |-> probeService.aborted \cup Range(probeService.abortControllers),
                      calls |-> probeService.calls + 1,
                      seen |-> probeService.seen \cup InFlight]
  /\ probeCache' = <<>>
  /\ UNCHANGED <<rules, now, pass, state, profiles, activeProfile, badge, orch, edits, aside>>

\* RuleEngine.abortAllProbes -> ProbeService.abortAllProbes: abort() on every
\* registered controller, then abortControllers.clear()
AbortAllProbes ==
  /\ probeService.calls < MaxAborts
  /\ probeService' = [abortControllers |-> <<>>,
                      aborted |-> probeService.aborted \cup Range(probeService.abortControllers),
                      calls |-> probeService.calls + 1,
                      seen |-> probeService.seen \cup InFlight]
  /\ UNCHANGED <<rules, now, probeCache, pass, state, profiles, activeProfile, badge, orch, edits, aside>>

\* the wall clock advances
ProbeTick ==
  /\ now < MaxTicks * TickMs
  /\ now' = now + TickMs
  /\ UNCHANGED <<rules, probeCache, pass, outside>>

ProbeNext ==
  \/ \E p \in Passes : StartEvaluation(p)
  \/ \E p \in Passes : TestRule(p)
  \/ \E p \in Passes : FacilityResponds(p)
  \/ \E p \in Passes : FetchAborted(p)
  \/ \E p \in Passes : TimeoutFires(p)
  \/ AbortAllProbes
  \/ ProbeTick

ProbeSpec == ProbeInit /\ [][ProbeNext]_vars

\* call p awaits a fetch whose signal is aborted: FetchAborted(p) is enabled
AbortPending(p) ==
  pass[p].pc = "await" /\ pass[p].inflight[1].exec \in probeService.aborted

\* timers fire, aborted fetches reject and the clock advances; nothing
\* obliges a network facility to answer.  FetchAborted(p) ends its own
\* enabling condition, so its weak fairness is that the condition is false
\* infinitely often
FairProbeSpec ==
  /\ ProbeSpec
  /\ WF_vars(ProbeTick)
  /\ \A p \in Passes : WF_vars(TimeoutFires(p))
  /\ \A p \in Passes : []<>(~AbortPending(p))

----------------------------------------------------------------------------
\* C11 as claimed: abortAllProbes cancels every asynchronous probe that is
\* in flight when it is called, whatever its type and however many there
\* are: such a probe does not stay pending without an aborted signal, and
\* it resolves with success = false and an error.
C11_AbortCancelsAll ==
  /\ \A p \in Passes :
       pass[p].pc = "await" /\ pass[p].inflight[1].exec \in probeService.seen
         => pass[p].inflight[1].exec \in probeService.aborted
  /\ \A c \in Calls :
       ~Call(c).hit /\ Call(c).result.exec \in probeService.seen
         => ~Call(c).result.success /\ Call(c).result.error # ""

\* call p awaits a probe that was started while the clock can still advance
\* past its timeout
AwaitsEarly(p) ==
  pass[p].pc = "await" /\ pass[p].inflight[1].made < MaxTicks * TickMs

\* C12 as claimed: a probe whose facility never answers is ended by the
\* timeout of its type, so that the call awaiting it goes on and returns:
\* no call awaits such probes for ever.
C12_EveryProbeSettles ==
  \A p \in Passes : [](AwaitsEarly(p) => <>(~AwaitsEarly(p)))

\* the trigger types that getProbeResult hands to a probe operation
KnownTypes == SyncTypes \cup AsyncTypes

\* C13 as claimed: no probe operation throws to getProbeResult, and an
\* asynchronous probe that does not succeed returns an error string.
C13_ProbesNeverThrow ==
  \A c \in Calls : Call(c).type \in KnownTypes =>
    /\ ~Call(c).threw
    /\ Call(c).type \in AsyncTypes /\ ~Call(c).result.success
         => Call(c).result.error # ""

\* C18: every step of a testRule call leaves the probe cache and the stored
\* rule set as they are, and each of its lookups runs a probe of its own:
\* none is served from the cache, even where the cache holds a valid entry
\* for the trigger.
C18_TestRuleFresh ==
  [][\A p \in Passes :
       pass'[p] # pass[p] /\ pass'[p].kind = "testRule"
         => /\ probeCache' = probeCache
            /\ rules' = rules
            /\ \A n \in 1..Len(pass'[p].trace) :
                 /\ ~pass'[p].trace[n].hit
                 /\ ~pass'[p].trace[n].enableCache
                 /\ ~pass'[p].trace[n].threw
                      => /\ pass'[p].trace[n].result.exec.p = p
                         /\ pass'[p].trace[n].result.exec # pass'[p].trace[n].cachedExec]_vars

\* a testRule call has returned after probing a trigger for which the cache
\* held a valid entry, and the cache still holds that entry
C18_Witness ==
  \E p \in Passes :
    /\ pass[p].kind = "testRule" /\ Done(p)
    /\ DOMAIN Ret(p) = {"success", "results"}
    /\ \E n \in 1..Len(pass[p].trace) :
         LET e == pass[p].trace[n] IN
         /\ e.cachedExec # NoExec
         /\ ~e.hit
         /\ CacheKey(e.type, e.trigger) \in DOMAIN probeCache
         /\ probeCache[CacheKey(e.type, e.trigger)].result.exec = e.cachedExec

\* C19: a call of abortAllProbes leaves the probe cache as it is, and with
\* it every result that a call has received and every value a call has
\* returned.
C19_AbortLeavesCache ==
  [][probeService'.calls # probeService.calls
       => probeCache' = probeCache /\ pass' = pass]_vars

\* abortAllProbes has aborted a probe in flight while the cache held the
\* result of a completed probe
C19_Witness ==
  /\ probeService.calls > 0
  /\ DOMAIN probeCache # {}
  /\ \E p \in Passes :
       /\ pass[p].pc = "await"
       /\ pass[p].inflight[1].exec \in probeService.seen
       /\ pass[p].inflight[1].exec \in probeService.aborted
       /\ now < pass[p].inflight[1].made + TimeoutOf(pass[p].inflight[1].type)
  /\ \E c \in Calls : ~Call(c).hit /\ ~Call(c).threw

----------------------------------------------------------------------------
(* BackgroundService.evaluateRules with the storage, the proxy service and  *)
(* the badge.  An action is the completion of the operation the call       *)
(* awaits, followed by the synchronous code up to the next await.          *)

\* number of saveRule, deleteRule, setState and forceEvaluation requests
MaxEdits == 1

\* what a browser.storage.local request does: it resolves or it rejects
StorageOutcomes == {TRUE, FALSE}

\* rule.name of the rules below: each is named like its id
RuleName(rule) == rule.id

ServiceCatalog ==
  << MkRule("v1", TRUE, 10, FALSE, When(<<T("manualFlag", FlagTrue)>>), "direct"),
     MkRule("v2", TRUE, 20, FALSE, When(<<T("reachability", ReachA)>>), "gone"),
     MkRule("v3", TRUE, 5, FALSE, When(<<T("manualFlag", FlagTrue)>>), ""),
     MkRule("v1", FALSE, 10, FALSE, When(<<T("manualFlag", FlagTrue)>>), "direct") >>

\* the stored rule sets: at most MaxRules rules of the catalog with distinct
\* ids, in its order
ServiceRuleSets ==
  UNION { { [i \in 1..n |-> ServiceCatalog[idx[i]]] :
              idx \in { ix \in [1..n -> 1..Len(ServiceCatalog)] :
                          \A i \in 1..(n - 1) :
                            /\ ix[i] < ix[i + 1]
                            /\ ServiceCatalog[ix[i]].id # ServiceCatalog[ix[i + 1]].id } }
          : n \in 0..MaxRules }

ServiceInit ==
  /\ rules \in ServiceRuleSets
  /\ now = 0
  /\ probeCache = <<>>
  /\ pass = [p \in Passes |-> IdlePass]
  /\ probeService = NewProbeService
  /\ state \in { [DEFAULT_STATE EXCEPT !.autoMode = a] : a \in BOOLEAN }
  /\ profiles = DEFAULT_PROFILES
  /\ activeProfile = "null"
  /\ badge = ""
  /\ orch = [p \in Passes |-> IdleCall]
  /\ edits = 0
  /\ applied = NotApplied
  /\ setCall = IdleSetCall
  /\ switches = NoSwitches

\* { ...currentState, ...updates }
Merge(currentState, updates) ==
  [k \in DOMAIN currentState |-> IF k \in DOMAIN updates THEN updates[k] ELSE currentState[k]]

\* text.substring(0, 4) of the texts that occur
BadgeText(text) ==
  IF text = "No Match" THEN "No M"
  ELSE IF text = "Error" THEN "Erro"
  ELSE text

\* the catch block of evaluateRules: await this.updateBadge('Error')
Catch(o) == [o EXCEPT !.pc = "badge", !.text = "Error", !.caught = TRUE]

\* mutant: the autoMode check lets every call through
AutoModeDisabled_Never(s) == FALSE

\* if (!state.autoMode)
AutoModeDisabled(s) == ~s.autoMode

\* mutant: a falsy profile id is activated like any other
Activates_AnyMatch(result) == result.matched

\* if (result.matched && result.profileId)
Activates(result) == result.matched /\ result.profileId # ""

\* the result of storageService.getRules(): a copy of the stored rule set
GetRules(stored) == stored

\* the code between the return of ruleEngine.evaluateRules and the first
\* await of storageService.updateState; L holds the returned value
AfterEvaluation(o, L, t) ==
  LET result == L.ret[1] IN
  [o EXCEPT !.pc = "updateState.get",
            !.stage = "record",
            !.matched = result.matched,
            !.checkedAt = t,
            !.profileId = IF result.matched THEN result.profileId ELSE "",
            !.updates = IF result.matched /\ result.rule.id # ""
                        THEN [lastCheckTime |-> t, lastRuleMatched |-> result.rule.id]
                        ELSE [lastCheckTime |-> t]]

\* the call goes on after the engine step that produced L, if it returned
Continue(o, L, t) == IF L.pc = "done" THEN AfterEvaluation(o, L, t) ELSE o

\* an event listener, handleForceEvaluation or handleSetState calls
\* evaluateRules(): storageService.getState() is requested
Invoke(p) ==
  /\ orch[p].pc = "idle"
  /\ p = "second" => orch["first"].pc # "idle"
  /\ orch' = [orch EXCEPT ![p].pc = "getState"]
  /\ UNCHANGED <<rules, now, probeCache, pass, probeService, state, profiles,
                 activeProfile, badge, edits, aside>>

\* handleForceEvaluation: ruleEngine.clearCache(), then evaluateRules() is
\* called and requests storageService.getState()
ForceEvaluation(p) ==
  /\ orch[p].pc = "idle"
  /\ p = "second" => orch["first"].pc # "idle"
  /\ edits < MaxEdits
  /\ probeCache' = <<>>
  /\ orch' = [orch EXCEPT ![p].pc = "getState", ![p].forced = TRUE,
                          ![p].staleRuns = InFlight]
  /\ edits' = edits + 1
  /\ UNCHANGED <<rules, now, pass, probeService, state, profiles,
                 activeProfile, badge, aside>>

\* const state = await storageService.getState(); if (!state.autoMode) return
GetStateReturns(p) ==
  /\ orch[p].pc = "getState"
  /\ \E ok \in StorageOutcomes :
       orch' = [orch EXCEPT ![p] =
                  IF ~ok THEN Catch(@)
                  ELSE IF AutoModeDisabled(state)
                  THEN [@ EXCEPT !.pc = "returned", !.sawAutoMode = IF state.autoMode THEN "on" ELSE "off",
                                 !.outcome = "resolved"]
                  ELSE [@ EXCEPT !.pc = "getRules", !.sawAutoMode = IF state.autoMode THEN "on" ELSE "off"]]
  /\ UNCHANGED <<rules, now, probeCache, pass, probeService, state, profiles,
                 activeProfile, badge, edits, aside>>

\* const rules = await storageService.getRules();
\* const result = await ruleEngine.evaluateRules(rules)
GetRulesReturns(p) ==
  /\ orch[p].pc = "getRules"
  /\ \E ok \in StorageOutcomes :
       IF ~ok
       THEN /\ orch' = [orch EXCEPT ![p] = Catch(@)]
            /\ UNCHANGED <<pass, probeCache, probeService>>
       ELSE LET loaded == GetRules(rules)
                S == EvaluateRules(p, loaded, DEFAULT_OPTIONS, probeCache, now)
            IN  /\ pass' = [pass EXCEPT ![p] = S.L]
                /\ probeCache' = S.cache
                /\ probeService' = Register(probeService, S.L, now)
                /\ orch' = [orch EXCEPT ![p] =
                              Continue([@ EXCEPT !.pc = "evaluate", !.loaded = <<loaded>>],
                                       S.L, now)]
  /\ UNCHANGED <<rules, now, state, profiles, activeProfile, badge, edits, aside>>

\* the probe that the engine awaits for call p settles: the facility answers
\* (a status) or fails (0), or the fetch rejects because abortAllProbes
\* aborted its controller; the engine runs on, and when it returns the call
\* goes on to updateState
EngineProbeSettles(p) ==
  /\ orch[p].pc = "evaluate"
  /\ pass[p].pc = "await"
  /\ \E net \in NetOutcomes :
       LET L == pass[p]
           f == L.inflight[1]
           result == IF f.exec \in probeService.aborted
                     THEN Result(FALSE, "The operation was aborted", now, f.exec)
                     ELSE AsyncResult(f.type, f.trigger, net, now, f.exec)
           S == Resume(p, L, probeCache, result, now)
       IN  /\ pass' = [pass EXCEPT ![p] = S.L]
           /\ probeCache' = S.cache
           /\ probeService' = Register(Unregister(probeService, f), S.L, now)
           /\ orch' = [orch EXCEPT ![p] = Continue(@, S.L, now)]
  /\ UNCHANGED <<rules, now, state, profiles, activeProfile, badge, edits, aside>>

\* updateState: const currentState = await this.getState()
UpdateStateReads(p) ==
  /\ orch[p].pc = "updateState.get"
  /\ \E ok \in StorageOutcomes :
       orch' = [orch EXCEPT ![p] =
                  IF ~ok
                  THEN Catch([@ EXCEPT !.activationFailed = (orch[p].stage = "activate")])
                  ELSE [@ EXCEPT !.pc = "updateState.set", !.currentState = state]]
  /\ UNCHANGED <<rules, now, probeCache, pass, probeService, state, profiles,
                 activeProfile, badge, edits, aside>>

\* updateState: await browser.storage.local.set({ state: newState }), then
\* the code after the updateState call: in evaluateRules the choice between
\* setActiveProfile and the 'No Match' badge, in setActiveProfile the proxy
\* settings of the profile
UpdateStateWrites(p) ==
  /\ orch[p].pc = "updateState.set"
  /\ \E ok \in StorageOutcomes :
       LET o == orch[p]
           newState == Merge(o.currentState, o.updates)
           result == [matched |-> o.matched, profileId |-> o.profileId]
       IN  IF ~ok
           THEN /\ orch' = [orch EXCEPT ![p] =
                              Catch([@ EXCEPT !.activationFailed = (o.stage = "activate")])]
                /\ UNCHANGED state
           ELSE /\ state' = newState
                /\ orch' = [orch EXCEPT ![p] =
                     IF o.stage = "activate"
                     THEN [@ EXCEPT !.pc = "setActiveProfile.apply",
                                    !.writes = Append(@, newState)]
                     ELSE IF Activates(result)
                     THEN [@ EXCEPT !.pc = "setActiveProfile.getProfile",
                                    !.stage = "activate",
                                    !.writes = Append(@, newState),
                                    !.sapCalls = Append(@, o.profileId)]
                     ELSE [@ EXCEPT !.pc = "badge", !.text = "No Match",
                                    !.writes = Append(@, newState)]]
  /\ UNCHANGED <<rules, now, probeCache, pass, probeService, profiles,
                 activeProfile, badge, edits, aside>>

\* setActiveProfile: const profile = await storageService.getProfile(id);
\* throw if there is none, else this.activeProfile = profile and
\* updateState({ activeProfileId }) is called
GetProfileReturns(p) ==
  /\ orch[p].pc = "setActiveProfile.getProfile"
  /\ \E ok \in StorageOutcomes :
       LET o == orch[p] IN
       IF ~ok
       THEN /\ orch' = [orch EXCEPT ![p] = Catch([@ EXCEPT !.activationFailed = TRUE])]
            /\ UNCHANGED activeProfile
       ELSE IF o.profileId \notin profiles
       THEN /\ orch' = [orch EXCEPT ![p] = Catch([@ EXCEPT !.activationFailed = TRUE])]
            /\ UNCHANGED activeProfile
       ELSE /\ activeProfile' = o.profileId
            /\ orch' = [orch EXCEPT ![p] =
                          [@ EXCEPT !.pc = "updateState.get",
                                    !.updates = [activeProfileId |-> o.profileId]]]
  /\ UNCHANGED <<rules, now, probeCache, pass, probeService, state, profiles, badge, edits, aside>>

\* setActiveProfile: the proxy settings are applied (setDirectProxy and
\* setSystemProxy catch their own errors); evaluateRules goes on with
\* updateBadge(result.rule?.name || 'Auto')
ProxyApplied(p) ==
  /\ orch[p].pc = "setActiveProfile.apply"
  /\ orch' = [orch EXCEPT ![p] =
                [@ EXCEPT !.pc = "badge",
                          !.text = RuleName(pass[p].ret[1].rule)]]
  /\ UNCHANGED <<rules, now, probeCache, pass, probeService, state, profiles,
                 activeProfile, badge, edits, aside>>

\* updateBadge: browser.action.setBadgeText({ text: text.substring(0, 4) });
\* after the badge of a match the profile is read for the notification,
\* otherwise evaluateRules returns
BadgeUpdated(p) ==
  /\ orch[p].pc = "badge"
  /\ badge' = BadgeText(orch[p].text)
  /\ orch' = [orch EXCEPT ![p] =
                IF @.stage = "activate" /\ ~@.caught
                THEN [@ EXCEPT !.pc = "notify", !.stage = "notify",
                               !.shown = BadgeText(orch[p].text)]
                ELSE [@ EXCEPT !.pc = "returned", !.shown = BadgeText(orch[p].text),
                               !.outcome = "resolved"]]
  /\ UNCHANGED <<rules, now, probeCache, pass, probeService, state, profiles,
                 activeProfile, edits, aside>>

\* const profile = await storageService.getProfile(result.profileId) and
\* showNotification, which catches its own errors
NotificationDone(p) ==
  /\ orch[p].pc = "notify"
  /\ \E ok \in StorageOutcomes :
       orch' = [orch EXCEPT ![p] =
                  IF ~ok THEN Catch(@)
                  ELSE [@ EXCEPT !.pc = "returned", !.outcome = "resolved"]]
  /\ UNCHANGED <<rules, now, probeCache, pass, probeService, state, profiles,
                 activeProfile, badge, edits, aside>>

\* rules[rule.id] = rule of saveRule: an existing key keeps its position
Upsert(stored, rule) ==
  IF \E i \in 1..Len(stored) : stored[i].id = rule.id
  THEN [i \in 1..Len(stored) |-> IF stored[i].id = rule.id THEN rule ELSE stored[i]]
  ELSE Append(stored, rule)

\* mutant: the rule set handed to a call is the stored object itself, so
\* that an edit shows in the calls in flight
SaveRule_Shared ==
  \E i \in 1..Len(ServiceCatalog) :
    /\ Upsert(rules, ServiceCatalog[i]) # rules
    /\ Len(Upsert(rules, ServiceCatalog[i])) <= MaxRules
    /\ edits < MaxEdits
    /\ rules' = Upsert(rules, ServiceCatalog[i])
    /\ edits' = edits + 1
    /\ pass' = [p \in Passes |->
                  IF pass[p].pc = "await"
                  THEN [pass[p] EXCEPT !.input = rules']
                  ELSE pass[p]]
    /\ UNCHANGED <<now, probeCache, probeService, state, profiles,
                   activeProfile, badge, orch, aside>>

\* handleSaveRule: storageService.saveRule(data), the only writer of the
\* rules at the time
SaveRule ==
  \E i \in 1..Len(ServiceCatalog) :
    /\ Upsert(rules, ServiceCatalog[i]) # rules
    /\ Len(Upsert(rules, ServiceCatalog[i])) <= MaxRules
    /\ edits < MaxEdits
    /\ rules' = Upsert(rules, ServiceCatalog[i])
    /\ edits' = edits + 1
    /\ UNCHANGED <<now, probeCache, pass, probeService, state, profiles,
                   activeProfile, badge, orch, aside>>

\* handleDeleteRule: storageService.deleteRule(data.id)
DeleteRule ==
  \E i \in 1..Len(rules) :
    /\ edits < MaxEdits
    /\ rules' = SubSeq(rules, 1, i - 1) \o SubSeq(rules, i + 1, Len(rules))
    /\ edits' = edits + 1
    /\ UNCHANGED <<now, probeCache, pass, probeService, state, profiles,
                   activeProfile, badge, orch, aside>>

\* the popup sends setState with data = { autoMode: a }: handleSetState
\* calls storageService.updateState(data), which requests getState
SetStateInvoke ==
  /\ setCall.pc = "idle"
  /\ edits < MaxEdits
  /\ \E a \in BOOLEAN :
       setCall' = [setCall EXCEPT !.pc = "updateState.get", !.updates = [autoMode |-> a]]
  /\ edits' = edits + 1
  /\ UNCHANGED <<rules, now, probeCache, pass, probeService, state, profiles,
                 activeProfile, badge, orch, applied, switches>>

\* updateState of handleSetState: const currentState = await this.getState();
\* a rejection ends the handler
SetStateReads ==
  /\ setCall.pc = "updateState.get"
  /\ \E ok \in StorageOutcomes :
       setCall' = IF ok
                  THEN [setCall EXCEPT !.pc = "updateState.set", !.currentState = state]
                  ELSE [setCall EXCEPT !.pc = "returned"]
  /\ UNCHANGED <<rules, now, probeCache, pass, probeService, state, profiles,
                 activeProfile, badge, orch, edits, applied, switches>>

\* ProbeService.abortAllProbes on the registry ps: abort() on every
\* registered controller, then abortControllers.clear()
AllAborted(ps) ==
  [abortControllers |-> <<>>,
   aborted |-> ps.aborted \cup Range(ps.abortControllers),
   calls |-> ps.calls + 1,
   seen |-> ps.seen \cup InFlight]

\* the call slot that an evaluateRules() call of handleSetState takes
FreeSlots == { p \in Passes : orch[p].pc = "idle" /\ (p = "second" => orch["first"].pc # "idle") }

\* updateState of handleSetState: await browser.storage.local.set({ state:
\* newState }); then ruleEngine.abortAllProbes() if data.autoMode === false,
\* and this.evaluateRules() if data.autoMode === true (as far as a call slot
\* is left)
SetStateWrites ==
  /\ setCall.pc = "updateState.set"
  /\ \E ok \in StorageOutcomes :
       IF ~ok
       THEN /\ setCall' = [setCall EXCEPT !.pc = "returned"]
            /\ UNCHANGED <<state, probeService, orch>>
       ELSE /\ state' = Merge(setCall.currentState, setCall.updates)
            /\ setCall' = [setCall EXCEPT !.pc = "returned", !.wrote = TRUE]
            /\ IF setCall.updates.autoMode = FALSE
               THEN /\ probeService' = AllAborted(probeService)
                    /\ UNCHANGED orch
               ELSE /\ orch' = [p \in Passes |->
                                  IF p \in FreeSlots
                                  THEN [orch[p] EXCEPT !.pc = "getState"]
                                  ELSE orch[p]]
                    /\ UNCHANGED probeService
  /\ UNCHANGED <<rules, now, probeCache, pass, profiles, activeProfile, badge,
                 edits, applied, switches>>

\* the wall clock advances
ServiceTick ==
  /\ now < MaxTicks * TickMs
  /\ now' = now + TickMs
  /\ UNCHANGED <<rules, probeCache, pass, outside>>

ServiceNext ==
  \/ \E p \in Passes : Invoke(p)
  \/ \E p \in Passes : ForceEvaluation(p)
  \/ \E p \in Passes : GetStateReturns(p)
  \/ \E p \in Passes : GetRulesReturns(p)
  \/ \E p \in Passes : EngineProbeSettles(p)
  \/ \E p \in Passes : UpdateStateReads(p)
  \/ \E p \in Passes : UpdateStateWrites(p)
  \/ \E p \in Passes : GetProfileReturns(p)
  \/ \E p \in Passes : ProxyApplied(p)
  \/ \E p \in Passes : BadgeUpdated(p)
  \/ \E p \in Passes : NotificationDone(p)
  \/ SaveRule
  \/ DeleteRule
  \/ SetStateInvoke
  \/ SetStateReads
  \/ SetStateWrites
  \/ ServiceTick

ServiceSpec == ServiceInit /\ [][ServiceNext]_vars

----------------------------------------------------------------------------
\* C14: a call of BackgroundService.evaluateRules that reads autoMode =
\* false returns at once: it has loaded no rules, its engine pass never
\* started (so no probe ran), it wrote no state, it did not call
\* setActiveProfile, it set no badge, and its promise resolved
C14_AutoModeOffNoOp ==
  \A p \in Passes :
    orch[p].sawAutoMode = "off" =>
      /\ orch[p].pc = "returned"
      /\ orch[p].outcome = "resolved"
      /\ orch[p].loaded = <<>>
      /\ pass[p] = IdlePass
      /\ orch[p].writes = <<>>
      /\ orch[p].sapCalls = <<>>
      /\ orch[p].shown = "none"

\* a call returned with autoMode off although the first stored rule is
\* enabled and would match
C14_Witness ==
  \E p \in Passes :
    /\ orch[p].pc = "returned"
    /\ orch[p].sawAutoMode = "off"
    /\ Len(rules) > 0
    /\ rules[1] = ServiceCatalog[1]

\* a call that ran to its end with autoMode on and without a failure
CompletedPass(p) ==
  /\ orch[p].pc = "returned"
  /\ orch[p].sawAutoMode = "on"
  /\ ~orch[p].caught

\* C15: a completed pass whose evaluation matched rule R called
\* setActiveProfile exactly once, with R.then.setActiveProfile, and wrote
\* lastRuleMatched = R.id and lastCheckTime; a completed pass without a
\* match wrote lastCheckTime and did not call setActiveProfile
C15_MatchActivatesOnce ==
  \A p \in Passes :
    CompletedPass(p) =>
      /\ Len(orch[p].writes) >= 1
      /\ orch[p].writes[1].lastCheckTime = orch[p].checkedAt
      /\ orch[p].matched =>
           /\ orch[p].sapCalls = << pass[p].ret[1].rule.then.setActiveProfile >>
           /\ orch[p].writes[1].lastRuleMatched = pass[p].ret[1].rule.id
      /\ ~orch[p].matched => orch[p].sapCalls = <<>>

\* C16: a call in which setActiveProfile threw ends with its promise
\* rejected, so that its caller gets the error
C16_ActivationFailurePropagates ==
  \A p \in Passes :
    orch[p].activationFailed /\ orch[p].pc = "returned" =>
      orch[p].outcome = "rejected"

\* C17: the promise of evaluateRules never rejects; a call in which
\* anything failed ends with the badge of 'Error', and the badge of
\* 'No Match' is set only by calls whose evaluation returned matched = false
C17_ErrorStatusDistinct ==
  \A p \in Passes :
    /\ orch[p].outcome # "rejected"
    /\ orch[p].pc = "returned" /\ orch[p].caught => orch[p].shown = BadgeText("Error")
    /\ BadgeText("Error") # BadgeText("No Match")
    /\ orch[p].shown = BadgeText("No Match") => ~orch[p].matched /\ ~orch[p].caught

\* C20: the steps of a pass or of a call write neither rules nor profiles;
\* saveRule and deleteRule touch no pass, no call and no cache; the rule
\* set a call loads is the stored one of that moment and is what its pass
\* evaluates; a started pass keeps its rule set
C20_PassWorksOnSnapshot ==
  [][ /\ rules' # rules =>
           pass' = pass /\ orch' = orch /\ probeCache' = probeCache
      /\ pass' # pass \/ orch' # orch \/ probeCache' # probeCache =>
           rules' = rules /\ profiles' = profiles
      /\ \A p \in Passes :
           /\ orch[p].loaded = <<>> /\ orch'[p].loaded # <<>> =>
                orch'[p].loaded = <<rules>> /\ pass'[p].input = rules
           /\ pass[p].pc # "idle" =>
                /\ pass'[p].input = pass[p].input
                /\ pass'[p].enabledRules = pass[p].enabledRules
           /\ pass'[p].pc = "done" /\ pass'[p].ret[1].matched =>
                \E i \in 1..Len(orch'[p].loaded[1]) :
                  pass'[p].ret[1].rule = orch'[p].loaded[1][i]
    ]_vars

\* the first pass matched a rule that was deleted while its probe was in
\* flight, and the second call loaded the rule set without it
C20_Witness ==
  /\ pass["first"].pc = "done"
  /\ pass["first"].ret[1].matched
  /\ \A i \in 1..Len(rules) : rules[i].id # pass["first"].ret[1].rule.id
  /\ orch["first"].loaded # <<rules>>
  /\ orch["second"].loaded = <<rules>>
  /\ edits = 1

----------------------------------------------------------------------------
(* The CIDR/address matcher of ProbeService.  Strings are sequences of     *)
(* characters.  A 32-bit word is the record of its two 16-bit halves, so  *)
(* that the operators keep the width they have in JavaScript; ToInt32 and  *)
(* ToUint32 read the same word, and === of two words compares the halves.  *)

DigitChars == {"0", "1", "2", "3", "4", "5", "6", "7", "8", "9"}
DigitVal(c) == CHOOSE d \in 0..9 : ToString(d) = c

RECURSIVE SplitFrom(_, _, _, _)
\* s.split(sep) from position i, with the current part cur
SplitFrom(cs, sep, i, cur) ==
  IF i > Len(cs) THEN <<cur>>
  ELSE IF cs[i] = sep THEN <<cur>> \o SplitFrom(cs, sep, i + 1, <<>>)
  ELSE SplitFrom(cs, sep, i + 1, Append(cur, cs[i]))

Split(cs, sep) == SplitFrom(cs, sep, 1, <<>>)

NaN == [nan |-> TRUE, n |-> 0]
Number(n) == [nan |-> FALSE, n |-> n]

RECURSIVE LeadingDigits(_, _, _)
\* the value of the digits of cs from position i on, after the value acc
LeadingDigits(cs, i, acc) ==
  IF i > Len(cs) \/ cs[i] \notin DigitChars THEN acc
  ELSE LeadingDigits(cs, i + 1, 10 * acc + DigitVal(cs[i]))

\* parseInt(s, 10): an optional sign and the leading digits; NaN without one
ParseInt(cs) ==
  LET signed == Len(cs) > 0 /\ cs[1] \in {"-", "+"}
      start == IF signed THEN 2 ELSE 1
  IN  IF start > Len(cs) \/ cs[start] \notin DigitChars THEN NaN
      ELSE IF signed /\ cs[1] = "-" THEN Number(0 - LeadingDigits(cs, start, 0))
      ELSE Number(LeadingDigits(cs, start, 0))

RECURSIVE DigitsOf(_)
DigitsOf(n) == IF n < 10 THEN <<ToString(n)>> ELSE Append(DigitsOf(n \div 10), ToString(n % 10))

\* num.toString() of an integer
NumToString(n) == IF n < 0 THEN <<"-">> \o DigitsOf(0 - n) ELSE DigitsOf(n)

Word(hi, lo) == [hi |-> hi, lo |-> lo]
\* 0 and 0xFFFFFFFF
Word0 == Word(0, 0)
WordFFFFFFFF == Word(65535, 65535)

RECURSIVE Pow2(_)
Pow2(n) == IF n = 0 THEN 1 ELSE 2 * Pow2(n - 1)

\* the word w shifted left by k bits (k of 0..31), bits beyond the 32nd
\* dropped
Doubled(w, k) ==
  IF k >= 16
  THEN Word((w.lo * Pow2(k - 16)) % 65536, 0)
  ELSE Word((((w.hi * Pow2(k)) % 65536) + ((w.lo * Pow2(k)) \div 65536)) % 65536,
            (w.lo * Pow2(k)) % 65536)

\* x << n: the shift count is the low five bits of n
ShiftLeft(w, n) == Doubled(w, n % 32)

\* w + n of a word and an integer of less than 16 bits, modulo 2^32
AddSmall(w, n) ==
  LET lo == w.lo + n IN
  Word((w.hi + (IF lo >= 65536 THEN 1 ELSE IF lo < 0 THEN 65535 ELSE 0)) % 65536, lo % 65536)

RECURSIVE AndBits(_, _, _)
\* bitwise and of the low k bits of two naturals
AndBits(a, b, k) ==
  IF k = 0 THEN 0
  ELSE 2 * AndBits(a \div 2, b \div 2, k - 1) + (IF a % 2 = 1 /\ b % 2 = 1 THEN 1 ELSE 0)

\* a & b
BitAnd(a, b) == Word(AndBits(a.hi, b.hi, 16), AndBits(a.lo, b.lo, 16))

\* parts.length === 4 && parts.every(part => { const num = parseInt(part, 10);
\*   return num >= 0 && num <= 255 && part === num.toString() })
IsIPv4(ip) ==
  LET parts == Split(ip, ".") IN
  /\ Len(parts) = 4
  /\ \A i \in 1..4 :
       LET num == ParseInt(parts[i]) IN
       /\ ~num.nan
       /\ num.n >= 0 /\ num.n <= 255
       /\ parts[i] = NumToString(num.n)

HexChars == DigitChars \cup {"a", "b", "c", "d", "e", "f", "A", "B", "C", "D", "E", "F"}

\* /^([0-9a-fA-F]{0,4}:){1,7}[0-9a-fA-F]{0,4}$/.test(ip)
IsIPv6(ip) ==
  LET parts == Split(ip, ":") IN
  /\ Len(parts) >= 2 /\ Len(parts) <= 8
  /\ \A i \in 1..Len(parts) :
       /\ Len(parts[i]) <= 4
       /\ \A j \in 1..Len(parts[i]) : parts[i][j] \in HexChars

LowerChar(c) ==
  IF c = "A" THEN "a" ELSE IF c = "B" THEN "b" ELSE IF c = "C" THEN "c"
  ELSE IF c = "D" THEN "d" ELSE IF c = "E" THEN "e" ELSE IF c = "F" THEN "f"
  ELSE IF c = "O" THEN "o" ELSE IF c = "U" THEN "u"
  ELSE c

\* s.toLowerCase() of the characters that occur
ToLowerCase(cs) == [i \in 1..Len(cs) |-> LowerChar(cs[i])]

\* s.substring(0, n): a negative n counts as 0
Substring0(cs, n) ==
  SubSeq(cs, 1, IF n < 0 THEN 0 ELSE IF n > Len(cs) THEN Len(cs) ELSE n)

StartsWith(cs, prefix) ==
  Len(prefix) <= Len(cs) /\ SubSeq(cs, 1, Len(prefix)) = prefix

RECURSIVE Ipv4From(_, _, _)
\* ip.split('.').reduce((acc, part) => (acc << 8) + parseInt(part, 10), 0)
Ipv4From(parts, i, acc) ==
  IF i > Len(parts) THEN acc
  ELSE Ipv4From(parts, i + 1, AddSmall(ShiftLeft(acc, 8), ParseInt(parts[i]).n))

\* ipv4ToNumber: the reduction, then >>> 0; the parts are those of a string
\* that isIPv4 accepted
Ipv4ToNumber(ip) == Ipv4From(Split(ip, "."), 1, Word0)

IsIPv4InCIDR(ip, network, prefix) ==
  LET ipNum == Ipv4ToNumber(ip)
      networkNum == Ipv4ToNumber(network)
      mask == ShiftLeft(WordFFFFFFFF, 32 - prefix)
  IN  BitAnd(ipNum, mask) = BitAnd(networkNum, mask)

\* Math.floor(prefix / 4)
FloorDiv4(prefix) == prefix \div 4

IsIPv6InCIDR(ip, network, prefix) ==
  StartsWith(ToLowerCase(ip), Substring0(ToLowerCase(network), FloorDiv4(prefix)))

\* isIPInCIDR: the whole body is inside a try block that returns false
IsIPInCIDR(ip, cidr) ==
  LET parts == Split(cidr, "/") IN
  IF Len(parts) # 2 THEN FALSE
  ELSE LET network == parts[1]
           prefix == ParseInt(parts[2])
       IN  IF prefix.nan THEN FALSE
           ELSE IF IsIPv4(ip) /\ IsIPv4(network) THEN IsIPv4InCIDR(ip, network, prefix.n)
           ELSE IF IsIPv6(ip) /\ IsIPv6(network) THEN IsIPv6InCIDR(ip, network, prefix.n)
           ELSE FALSE

\* addresses.some(address => cidrs.some(cidr => this.isIPInCIDR(address, cidr)))
CheckIPInCIDRRanges(addresses, cidrs) ==
  \E i \in 1..Len(addresses) : \E j \in 1..Len(cidrs) : IsIPInCIDR(addresses[i], cidrs[j])

\* the dotted-quad string of four octets
IpStr(o) ==
  NumToString(o[1]) \o <<".">> \o NumToString(o[2]) \o <<".">> \o
  NumToString(o[3]) \o <<".">> \o NumToString(o[4])

\* the IPv4 addresses and networks the matcher is applied to
Ipv4Catalog ==
  { <<0, 0, 0, 0>>, <<10, 0, 0, 0>>, <<10, 0, 0, 5>>, <<10, 0, 1, 5>>, <<10, 128, 0, 1>>,
    <<127, 255, 255, 255>>, <<128, 0, 0, 1>>, <<192, 168, 1, 77>>, <<255, 255, 255, 255>> }

\* strings that are not a CIDR with a numeric prefix
MalformedCidrs ==
  { <<"n", "o", "t", "-", "a", "-", "c", "i", "d", "r">>,
    <<>>,
    IpStr(<<10, 0, 0, 0>>),
    IpStr(<<10, 0, 0, 0>>) \o <<"/">>,
    IpStr(<<10, 0, 0, 0>>) \o <<"/", "x">>,
    IpStr(<<10, 0, 0, 0>>) \o <<"/", "8", "/", "8">>,
    <<"/", "/">> }

\* strings that are not an IPv4 address in the form isIPv4 accepts, two of
\* them IPv6 addresses
OtherAddresses ==
  { <<"1", "0", ".", "0", ".", "0">>,
    <<"0", "1", "0", ".", "0", ".", "0", ".", "5">>,
    <<"f", "e", "8", "0", ":", ":", "1">>,
    <<"F", "E", "8", "0", ":", ":", "2">> }

OtherCidrs ==
  { <<"f", "e", "8", "0", ":", ":", "/", "1", "6">>,
    <<"f", "e", "8", "0", ":", ":", "/", "-", "4">>,
    IpStr(<<10, 0, 0, 0>>) \o <<"/", "3", "3">>,
    IpStr(<<10, 0, 0, 0>>) \o <<"/", "2", "4", "x">> }

\* isIPInCIDR(ip, cidr) is applied to an IPv4 address, an IPv4 network and a
\* prefix length of 0..32 (history fields: the octets and the prefix)
ApplyToIpv4 ==
  /\ applied = NotApplied
  /\ \E a \in Ipv4Catalog, n \in Ipv4Catalog, p \in 0..32 :
       LET ip == IpStr(a)
           cidr == IpStr(n) \o <<"/">> \o NumToString(p)
       IN  applied' = [op |-> "isIPInCIDR", kind |-> "ipv4", ip |-> ip, cidr |-> cidr,
                       address |-> a, network |-> n, prefix |-> p,
                       ret |-> IsIPInCIDR(ip, cidr)]
  /\ UNCHANGED <<rules, now, probeCache, pass, probeService, state, profiles,
                 activeProfile, badge, orch, edits, setCall, switches>>

\* isIPInCIDR is applied to another address or to another CIDR string
ApplyToOther ==
  /\ applied = NotApplied
  /\ \E ip \in { IpStr(a) : a \in Ipv4Catalog } \cup OtherAddresses,
        cidr \in MalformedCidrs \cup OtherCidrs :
       applied' = [op |-> "isIPInCIDR",
                   kind |-> IF cidr \in MalformedCidrs THEN "malformed" ELSE "other",
                   ip |-> ip, cidr |-> cidr,
                   address |-> <<>>, network |-> <<>>, prefix |-> 0,
                   ret |-> IsIPInCIDR(ip, cidr)]
  /\ UNCHANGED <<rules, now, probeCache, pass, probeService, state, profiles,
                 activeProfile, badge, orch, edits, setCall, switches>>

MatcherInit ==
  /\ rules = <<>>
  /\ now = 0
  /\ probeCache = <<>>
  /\ pass = [p \in Passes |-> IdlePass]
  /\ OutsideInit

MatcherNext == ApplyToIpv4 \/ ApplyToOther

MatcherSpec == MatcherInit /\ [][MatcherNext]_vars

\* bit i (1 the highest, 32 the lowest) of the address with octets o
BitOf(o, i) == (o[((i - 1) \div 8) + 1] \div Pow2(7 - ((i - 1) % 8))) % 2

\* the top p bits of two addresses are equal
SameTopBits(a, n, p) == \A i \in 1..p : BitOf(a, i) = BitOf(n, i)

\* C21: for an IPv4 address, an IPv4 network and a prefix length p of 0..32,
\* isIPInCIDR returns true iff the top p bits of the address equal those of
\* the network; for a CIDR string with a segment count other than 2 or a
\* non-numeric prefix it returns false
C21_CidrContainment ==
  /\ applied.op = "isIPInCIDR" /\ applied.kind = "ipv4" =>
       (applied.ret <=> SameTopBits(applied.address, applied.network, applied.prefix))
  /\ applied.op = "isIPInCIDR" /\ applied.kind = "malformed" => applied.ret = FALSE

----------------------------------------------------------------------------
(* The probe operations of ProbeService applied to one trigger each: the   *)
(* time window, the IP information and the DNS resolution.                 *)

\* the "HH:MM" string of a minute of the day
HHMM(m) == PadStart2(m \div 60) \o <<":">> \o PadStart2(m % 60)

\* the days of a time window trigger: none, or an array, or an object with a
\* length (an import that is not an array)
DaysChoices ==
  { <<>>, <<P(K_days, Arr(<<>>))>>, <<P(K_days, Arr(<<1, 2, 3, 4, 5>>))>>,
    <<P(K_days, Arr(<<6, 7>>))>>, <<P(K_days, Arr(<<3>>))>>,
    <<P(K_days, ObjVal(<<P(K_length, Num(1))>>))>> }

\* the from and to of a time window trigger, as minutes of the day; -1 for
\* a bound that is not given
RangeChoices == { <<-1, -1>>, <<540, 1020>>, <<600, 600>>, <<540, -1>>, <<-1, 1020>> }

RangeProps(r) ==
  (IF r[1] >= 0 THEN <<P(K_from, Str(HHMM(r[1])))>> ELSE <<>>) \o
  (IF r[2] >= 0 THEN <<P(K_to, Str(HHMM(r[2])))>> ELSE <<>>)

\* the values of Date.now() at which the time window is tested: on each of
\* seven days, 08:59, 09:00, 09:59, 10:00, 10:01, 17:00, 17:01, 23:59 and
\* 00:00 of the next day
ClockSamples ==
  { d * 86400000 + m * 60000 :
      d \in 1..7, m \in {-60, -59, 0, 1, 2, 421, 422, 840, 841} }

\* testTimeWindow(trigger) is called at time t; threw records a TypeError
ApplyTimeWindow ==
  /\ applied = NotApplied
  /\ \E days \in DaysChoices, r \in RangeChoices, t \in ClockSamples :
       LET trigger == Obj(days \o RangeProps(r)) IN
       applied' = [op |-> "testTimeWindow", trigger |-> trigger, t |-> t,
                   from |-> r[1], to |-> r[2],
                   threw |-> TimeWindowThrows(trigger),
                   ret |-> IF TimeWindowThrows(trigger)
                           THEN Result(FALSE, "TypeError", t, NoExec)
                           ELSE TestTimeWindow(trigger, t, NoExec)]
  /\ UNCHANGED <<rules, now, probeCache, pass, probeService, state, profiles,
                 activeProfile, badge, orch, edits, setCall, switches>>

K_expectOrg == <<"e", "x", "p", "e", "c", "t", "O", "r", "g">>
K_expectCountry ==
  <<"e", "x", "p", "e", "c", "t", "C", "o", "u", "n", "t", "r", "y">>
K_org == <<"o", "r", "g">>
K_country == <<"c", "o", "u", "n", "t", "r", "y">>

\* s.includes(sub)
Includes(cs, sub) ==
  \E i \in 0..(Len(cs) - Len(sub)) : SubSeq(cs, i + 1, i + Len(sub)) = sub

\* the provider's answers: status 0 stands for a failed request, and data is
\* the parsed JSON body of an answer
IpInfoAnswers ==
  { [status |-> st, data |-> Obj(org \o country)] :
      st \in {200, 404, 0},
      org \in { <<>>, <<P(K_org, Str(<<"A", "C", "E", " ", "c", "o">>))>>,
                <<P(K_org, Str(<<"B", "a", "d">>))>> },
      country \in { <<>>, <<P(K_country, Str(<<"A", "U">>))>>,
                    <<P(K_country, Str(<<"D", "E">>))>> } }

\* the expectations of an ipInfo trigger
IpInfoTriggers ==
  { Obj(org \o country) :
      org \in { <<>>, <<P(K_expectOrg, Str(<<"c", "E">>))>> },
      country \in { <<>>, <<P(K_expectCountry, Str(<<"a", "u">>))>> } }

\* if (trigger.expectOrg && data.org)
\*   success = success && data.org.toLowerCase().includes(trigger.expectOrg.toLowerCase())
OrgMet(trigger, data) ==
  HasProp(trigger, K_expectOrg) /\ Truthy(Prop(trigger, K_expectOrg))
    /\ HasProp(data, K_org) /\ Truthy(Prop(data, K_org)) =>
      Includes(ToLowerCase(Prop(data, K_org).s), ToLowerCase(Prop(trigger, K_expectOrg).s))

\* if (trigger.expectCountry && data.country)
\*   success = success && data.country.toLowerCase() === trigger.expectCountry.toLowerCase()
CountryMet(trigger, data) ==
  HasProp(trigger, K_expectCountry) /\ Truthy(Prop(trigger, K_expectCountry))
    /\ HasProp(data, K_country) /\ Truthy(Prop(data, K_country)) =>
      ToLowerCase(Prop(data, K_country).s) = ToLowerCase(Prop(trigger, K_expectCountry).s)

\* testIpInfo from the answer of fetch on: a failed request and a status
\* that is not OK end in the catch block
TestIpInfo(trigger, answer, t, exec) ==
  IF answer.status = 0 THEN Result(FALSE, "NetworkError", t, exec)
  ELSE IF answer.status # 200
  THEN Result(FALSE, "HTTP " \o ToString(answer.status), t, exec)
  ELSE Result(OrgMet(trigger, answer.data) /\ CountryMet(trigger, answer.data), "", t, exec)

\* testIpInfo(trigger) is called and the provider answers
ApplyIpInfo ==
  /\ applied = NotApplied
  /\ \E trigger \in IpInfoTriggers, answer \in IpInfoAnswers :
       applied' = [op |-> "testIpInfo", trigger |-> trigger, answer |-> answer,
                   ret |-> TestIpInfo(trigger, answer, now, NoExec)]
  /\ UNCHANGED <<rules, now, probeCache, pass, probeService, state, profiles,
                 activeProfile, badge, orch, edits, setCall, switches>>

K_matches == <<"m", "a", "t", "c", "h", "e", "s">>
K_expectIPCIDR == <<"e", "x", "p", "e", "c", "t", "I", "P", "C", "I", "D", "R">>
V_exact == <<"e", "x", "a", "c", "t">>
V_regex == <<"r", "e", "g", "e", "x">>

\* the string of a CIDR with network octets n and prefix length p
CidrStr(n, p) == IpStr(n) \o <<"/">> \o NumToString(p)

\* the members of expectIPCIDR: a network with a prefix length, or a plain
\* address (prefix -1)
ExpectedCatalog ==
  { [n |-> <<10, 0, 0, 0>>, p |-> 24], [n |-> <<192, 168, 0, 0>>, p |-> 16],
    [n |-> <<0, 0, 0, 0>>, p |-> 0], [n |-> <<10, 0, 0, 5>>, p |-> -1] }

ExpectedStr(e) == IF e.p < 0 THEN IpStr(e.n) ELSE CidrStr(e.n, e.p)

\* the expectIPCIDR lists: none ("absent"), empty, or one or two members
ExpectedLists ==
  { <<>> } \cup { <<e>> : e \in ExpectedCatalog }
           \cup { <<[n |-> <<192, 168, 0, 0>>, p |-> 16], e>> : e \in ExpectedCatalog }

\* what browser.dns.resolve gives: a rejection, or a list of addresses
ResolvedLists ==
  { <<>>, << <<10, 0, 0, 5>> >>, << <<10, 0, 1, 5>> >>,
    << <<10, 0, 1, 5>>, <<10, 0, 0, 5>> >> }

Strs(xs, F(_)) == [i \in 1..Len(xs) |-> F(xs[i])]

\* testDnsResolve from the answer of browser.dns.resolve on; rejected is
\* the case that ends in the catch block
TestDnsResolve(trigger, rejected, addresses, t, exec) ==
  IF rejected THEN Result(FALSE, "DNS resolution failed", t, exec)
  ELSE IF Len(addresses) = 0 THEN Result(FALSE, "No addresses resolved", t, exec)
  ELSE
    LET ranged ==
          IF HasProp(trigger, K_expectIPCIDR) /\ Len(Prop(trigger, K_expectIPCIDR).sa) > 0
          THEN CheckIPInCIDRRanges(addresses, Prop(trigger, K_expectIPCIDR).sa)
          ELSE TRUE
        success ==
          IF /\ HasProp(trigger, K_matches) /\ Prop(trigger, K_matches) = Str(V_exact)
             /\ HasProp(trigger, K_expectIPCIDR)
          THEN \E i \in 1..Len(addresses) :
                 \E j \in 1..Len(Prop(trigger, K_expectIPCIDR).sa) :
                   Prop(trigger, K_expectIPCIDR).sa[j] = addresses[i]
          ELSE ranged
    IN  Result(success, "", t, exec)

\* testDnsResolve(trigger) is called and the resolver answers (history
\* fields: the octets resolved, the members expected, 'exact' or not)
ApplyDnsResolve ==
  /\ applied = NotApplied
  /\ \E matches \in { <<>>, <<P(K_matches, Str(V_exact))>>, <<P(K_matches, Str(V_regex))>> },
        given \in BOOLEAN, expected \in ExpectedLists,
        rejected \in BOOLEAN, resolved \in ResolvedLists :
       /\ ~given => expected = <<>>
       /\ rejected => resolved = <<>>
       /\ LET trigger ==
                Obj(<<P(K_hostname, Str(<<"h">>))>> \o matches \o
                    (IF given THEN <<P(K_expectIPCIDR, StrArr(Strs(expected, ExpectedStr)))>>
                     ELSE <<>>))
          IN  applied' = [op |-> "testDnsResolve", trigger |-> trigger,
                          rejected |-> rejected, resolved |-> resolved,
                          given |-> given, expected |-> expected,
                          exact |-> (matches = <<P(K_matches, Str(V_exact))>>),
                          ret |-> TestDnsResolve(trigger, rejected, Strs(resolved, IpStr),
                                                 now, NoExec)]
  /\ UNCHANGED <<rules, now, probeCache, pass, probeService, state, profiles,
                 activeProfile, badge, orch, edits, setCall, switches>>

OperationInit ==
  /\ rules = <<>>
  /\ now = 0
  /\ probeCache = <<>>
  /\ pass = [p \in Passes |-> IdlePass]
  /\ OutsideInit

OperationNext ==
  \/ ApplyTimeWindow
  \/ ApplyIpInfo
  \/ ApplyDnsResolve

OperationSpec == OperationInit /\ [][OperationNext]_vars

\* the weekday at time t, Monday = 1 .. Sunday = 7
Weekday(t) == ((GetDay(t) + 6) % 7) + 1

\* the minute of the day at time t
MinuteOfDay(t) == GetHours(t) * 60 + GetMinutes(t)

\* the elements of the days of a trigger, whether array or object
DaysGiven(trigger) ==
  IF "a" \in DOMAIN Prop(trigger, K_days)
  THEN { Prop(trigger, K_days).a[i] : i \in 1..Len(Prop(trigger, K_days).a) }
  ELSE {}

\* C22: testTimeWindow returns a result, and the result is a success iff
\* (days is not given or the weekday, Monday = 1 .. Sunday = 7, is in days)
\* and (from and to are not both given or from <= HH:MM <= to)
C22_TimeWindow ==
  applied.op = "testTimeWindow" =>
    /\ ~applied.threw
    /\ applied.ret.success <=>
         /\ HasProp(applied.trigger, K_days) =>
              Weekday(applied.t) \in DaysGiven(applied.trigger)
         /\ applied.from >= 0 /\ applied.to >= 0 =>
              /\ applied.from <= MinuteOfDay(applied.t)
              /\ MinuteOfDay(applied.t) <= applied.to

\* the lower-case form of the strings of IpInfoAnswers and IpInfoTriggers
Folded(cs) ==
  IF cs = <<"A", "C", "E", " ", "c", "o">> THEN <<"a", "c", "e", " ", "c", "o">>
  ELSE IF cs = <<"B", "a", "d">> THEN <<"b", "a", "d">>
  ELSE IF cs = <<"A", "U">> THEN <<"a", "u">>
  ELSE IF cs = <<"D", "E">> THEN <<"d", "e">>
  ELSE IF cs = <<"c", "E">> THEN <<"c", "e">>
  ELSE cs

\* the text of a field of the answer; empty when the field is missing
FieldText(data, key) == IF HasProp(data, key) THEN Folded(Prop(data, key).s) ELSE <<>>

\* C23: for an answer with an OK status testIpInfo succeeds iff (expectOrg
\* is not given or the org field of the answer contains it, case ignored)
\* and (expectCountry is not given or the country field equals it, case
\* ignored), also when the answer lacks the field; another status or a
\* failed request gives a result that is not a success
C23_IpInfo ==
  applied.op = "testIpInfo" =>
    LET trigger == applied.trigger
        data == applied.answer.data
    IN  IF applied.answer.status = 200
        THEN applied.ret.success <=>
               /\ HasProp(trigger, K_expectOrg) =>
                    Includes(FieldText(data, K_org), Folded(Prop(trigger, K_expectOrg).s))
               /\ HasProp(trigger, K_expectCountry) =>
                    FieldText(data, K_country) = Folded(Prop(trigger, K_expectCountry).s)
        ELSE ~applied.ret.success

\* the address with octets a lies inside the expected member e: inside the
\* network when e has a prefix length, the address itself otherwise
LiesInside(a, e) == IF e.p < 0 THEN a = e.n ELSE SameTopBits(a, e.n, e.p)

\* C24: testDnsResolve fails when no address is resolved; with expectIPCIDR
\* given and matches not 'exact' it succeeds iff a resolved address lies
\* inside a listed CIDR; with matches 'exact' and expectIPCIDR given it
\* succeeds iff a resolved address is string-equal to a member of the list;
\* without expectIPCIDR it succeeds whenever an address is resolved
C24_DnsResolve ==
  applied.op = "testDnsResolve" =>
    LET resolved == applied.resolved
        expected == applied.expected
    IN  IF applied.rejected \/ Len(resolved) = 0 THEN ~applied.ret.success
        ELSE IF ~applied.given THEN applied.ret.success
        ELSE IF applied.exact
        THEN applied.ret.success <=>
               \E i \in 1..Len(resolved) : \E j \in 1..Len(expected) :
                 IpStr(resolved[i]) = ExpectedStr(expected[j])
        ELSE applied.ret.success <=>
               \E i \in 1..Len(resolved) : \E j \in 1..Len(expected) :
                 /\ expected[j].p >= 0
                 /\ LiesInside(resolved[i], expected[j])

----------------------------------------------------------------------------
\* the getProbeResult calls that ran a probe and stored its result
Stores == { c \in Calls : ~Call(c).hit /\ ~Call(c).threw /\ Call(c).enableCache }

\* the key of a call
KeyOf(c) == CacheKey(Call(c).type, Call(c).trigger)

\* the step is the sweep: the entries with expiry <= now are gone, all
\* others are unchanged
IsSweep ==
  /\ DOMAIN probeCache' = { k \in DOMAIN probeCache : probeCache[k].expiry > now }
  /\ \A k \in DOMAIN probeCache' : probeCache'[k] = probeCache[k]

\* the step is one pass running between two suspension points: it keeps
\* every key, and each entry that differs is the result it stored last for
\* the key in this step, expiring cacheTimeout after now
IsInsertBy(p) ==
  /\ \A q \in Passes \ {p} : pass'[q] = pass[q]
  /\ DOMAIN probeCache \subseteq DOMAIN probeCache'
  /\ \A k \in DOMAIN probeCache' :
       (k \notin DOMAIN probeCache \/ probeCache'[k] # probeCache[k]) =>
         /\ probeCache'[k].expiry = now + DefaultCacheTimeout
         /\ \E n \in (Len(pass[p].trace) + 1)..Len(pass'[p].trace) :
              LET e == pass'[p].trace[n] IN
              /\ ~e.hit /\ ~e.threw /\ e.enableCache
              /\ CacheKey(e.type, e.trigger) = k
              /\ e.result = probeCache'[k].result

\* C25: under every interleaving of the passes the cache holds, under each
\* key, a result that a probe of exactly the type and parameters of the key
\* returned, with the expiry of the time it was stored plus cacheTimeout;
\* and every step that changes the cache is a clear, a sweep or the inserts
\* of one pass between two of its suspension points, in which no other pass
\* moves
C25_CacheConsistent ==
  /\ [](\A k \in DOMAIN probeCache :
          \E c \in Stores :
            /\ KeyOf(c) = k
            /\ Call(c).result = probeCache[k].result
            /\ probeCache[k].expiry = Call(c).result.timestamp + DefaultCacheTimeout)
  /\ [][probeCache' # probeCache =>
          \/ probeCache' = <<>> /\ pass' = pass
          \/ IsSweep /\ pass' = pass
          \/ \E p \in Passes : IsInsertBy(p)]_vars

\* the probes of the two passes for one key overlapped, both results were
\* stored, and the cache holds the one stored last
C25_Witness ==
  \E c, d \in Stores :
    /\ c[1] # d[1]
    /\ KeyOf(c) = KeyOf(d)
    /\ Call(c).made <= Call(d).made
    /\ Call(d).made <= Call(c).result.timestamp
    /\ Call(c).result.exec # Call(d).result.exec
    /\ KeyOf(d) \in DOMAIN probeCache
    /\ probeCache[KeyOf(d)].result \in {Call(c).result, Call(d).result}
    /\ pass[c[1]].pc = "done" /\ pass[d[1]].pc = "done"

----------------------------------------------------------------------------
\* the position of the rule with the given id in a sequence of rules
PosOf(rs, id) == CHOOSE i \in 1..Len(rs) : rs[i].id = id

\* C26: the enabled rules of a pass are in ascending priority order, rules
\* of equal priority in their order in the rule set; the getProbeResult
\* calls of the pass follow that order; and a pass that returns a rule has
\* evaluated, without a match, every enabled rule of equal priority that
\* comes earlier in the rule set
C26_StableOrder ==
  \A p \in Passes : Started(p) =>
    LET rs == pass[p].input
        es == pass[p].enabledRules
    IN  /\ { es[k] : k \in 1..Len(es) } = { rs[i] : i \in EnabledAt(rs) }
        /\ Len(es) = Cardinality(EnabledAt(rs))
        /\ \A k, l \in 1..Len(es) : k < l =>
             /\ es[k].priority <= es[l].priority
             /\ es[k].priority = es[l].priority => PosOf(rs, es[k].id) < PosOf(rs, es[l].id)
        /\ \A m, n \in 1..Len(pass[p].trace) : m < n =>
             PosOf(es, pass[p].trace[m].ruleId) <= PosOf(es, pass[p].trace[n].ruleId)
        /\ Done(p) /\ Ret(p).matched =>
             \A j \in EnabledAt(rs) :
               /\ rs[j].priority = Ret(p).rule.priority
               /\ j < PosOf(rs, Ret(p).rule.id)
               => EvaluatedNoMatch(Ret(p).results, rs[j])

\* the rule set holds r2 before r1, both of priority 50 and both matching:
\* the pass probed r2 and returned it
C26_Witness ==
  /\ Done("first") /\ Done("second")
  /\ Len(rules) = 2
  /\ rules[1].priority = rules[2].priority
  /\ rules[1].id = "r2" /\ rules[2].id = "r1"
  /\ Ret("first").matched /\ Ret("first").rule.id = "r2"
  /\ Ret("first").results[ProbeKey("r2", "reachability")].exec.p = "first"

----------------------------------------------------------------------------
\* the rules a finished pass evaluated: the enabled rules in their order up
\* to the returned one, or all of them
EvaluatedRules(p) ==
  LET es == pass[p].enabledRules IN
  IF Ret(p).matched THEN SubSeq(es, 1, PosOf(es, Ret(p).rule.id)) ELSE es

\* C27: for every rule a finished pass evaluated, getProbeResult was called
\* for every trigger of its when, also for those behind a failed one, and
\* the returned results hold the entry `<ruleId>_<triggerType>` of each;
\* the rules behind the returned one have no call and no entry
C27_AllTriggersProbed ==
  \A p \in Passes : Done(p) =>
    LET ev == EvaluatedRules(p)
        es == pass[p].enabledRules
    IN  /\ \A i \in 1..Len(ev) : ev[i].when.isObj =>
             \A k \in LiveTriggers(ev[i]) :
               LET type == ev[i].when.entries[k].type IN
               /\ ProbeKey(ev[i].id, type) \in DOMAIN Ret(p).results
               /\ \E n \in 1..Len(pass[p].trace) :
                    /\ pass[p].trace[n].ruleId = ev[i].id
                    /\ pass[p].trace[n].type = type
                    /\ pass[p].trace[n].trigger = ev[i].when.entries[k].trigger
        /\ \A i \in (Len(ev) + 1)..Len(es) : Untouched(p, Ret(p).results, es[i])

\* a finished pass holds the entries of both triggers of rule r3, whose
\* first trigger (reachability) failed; its second was probed after it
C27_Witness ==
  \E p \in Passes :
    /\ Done(p)
    /\ ProbeKey("r3", "reachability") \in DOMAIN Ret(p).results
    /\ ~Ret(p).results[ProbeKey("r3", "reachability")].success
    /\ ProbeKey("r3", "manualFlag") \in DOMAIN Ret(p).results
    /\ \E m, n \in 1..Len(pass[p].trace) :
         /\ m < n
         /\ pass[p].trace[m].ruleId = "r3" /\ pass[p].trace[m].type = "reachability"
         /\ pass[p].trace[n].ruleId = "r3" /\ pass[p].trace[n].type = "manualFlag"

----------------------------------------------------------------------------
\* C28: a lookup is served from the cache only by an entry whose expiry is
\* later than the time of the lookup; the sweep removes exactly the entries
\* with expiry <= now and keeps the others as they are; and now or later, a
\* lookup of any key is served the same from the swept and from the unswept
\* cache
C28_ExpiredNeverServed ==
  /\ \A d \in Calls : Call(d).hit =>
       \E c \in Stores :
         /\ KeyOf(c) = KeyOf(d)
         /\ Call(c).result = Call(d).result
         /\ Call(d).made < Call(c).result.timestamp + DefaultCacheTimeout
  /\ LET swept == Swept(probeCache, now) IN
     \A k \in DOMAIN probeCache :
       /\ k \in DOMAIN swept <=> probeCache[k].expiry > now
       /\ k \in DOMAIN swept => swept[k] = probeCache[k]
       /\ \A t \in {now, now + TickMs} :
            /\ CacheHit(probeCache, k, DEFAULT_OPTIONS, t)
                 <=> CacheHit(swept, k, DEFAULT_OPTIONS, t)
            /\ CacheHit(probeCache, k, DEFAULT_OPTIONS, t) => swept[k] = probeCache[k]

\* the cache still holds an expired entry under a key, and a pass that
\* looked the key up after the expiry is running the probe again
C28_Witness ==
  \E p \in Passes :
    /\ pass[p].pc = "await"
    /\ LET f == pass[p].inflight[1]
           k == CacheKey(f.type, f.trigger)
       IN  /\ k \in DOMAIN probeCache
           /\ probeCache[k].expiry <= f.made
           /\ probeCache[k].result.exec.p # p

----------------------------------------------------------------------------
\* the setState request with autoMode = false has been handled to its end:
\* its updateState has written and abortAllProbes has run
AutoModeOffHandled ==
  /\ setCall.pc = "returned"
  /\ setCall.wrote
  /\ setCall.updates.autoMode = FALSE

\* C29: once setState with autoMode = false is handled, and for as long as
\* the stored autoMode is false, no call of evaluateRules, one in flight
\* included, calls setActiveProfile or changes the active profile
C29_NoActivationWhenOff ==
  [][ AutoModeOffHandled /\ ~state.autoMode =>
        /\ activeProfile' = activeProfile
        /\ \A p \in Passes : orch'[p].sapCalls = orch[p].sapCalls ]_vars

\* the fields that a step changes in the stored state
ChangedFields == { k \in DOMAIN state : state'[k] # state[k] }

\* the updateState call that writes in a step names field k
WriterNames(k) ==
  \/ /\ setCall.pc = "updateState.set" /\ setCall'.pc = "returned"
     /\ k \in DOMAIN setCall.updates
  \/ \E p \in Passes :
       /\ orch[p].pc = "updateState.set" /\ orch'[p].pc # "updateState.set"
       /\ k \in DOMAIN orch[p].updates

\* C30: a step changes only the fields of the stored state that the
\* updateState call writing in that step names; so the lastCheckTime record
\* of a pass never changes autoMode, and a written autoMode = false stays
\* until a setState names autoMode again
C30_UpdateStateMerges ==
  [][ \A k \in ChangedFields : WriterNames(k) ]_vars

----------------------------------------------------------------------------
\* the probes that abortAllProbes cancelled: in flight at a call of it and
\* rejected as aborted before their own timer was due
CancelledRuns ==
  { d \in Calls :
      /\ ~Call(d).hit /\ ~Call(d).threw
      /\ HasController(Call(d).type)
      /\ Call(d).result.exec \in probeService.seen
      /\ Call(d).result.error = "The operation was aborted"
      /\ Call(d).result.timestamp < Call(d).made + TimeoutOf(Call(d).type) }

\* C31: the cache holds no result of a probe that abortAllProbes cancelled,
\* and no lookup is served such a result
C31_NoCancelledResultCached ==
  \A d \in CancelledRuns :
    /\ \A k \in DOMAIN probeCache : probeCache[k].result # Call(d).result
    /\ \A c \in Calls : Call(c).hit => Call(c).result # Call(d).result

----------------------------------------------------------------------------
\* C32: no probe result that a forced pass uses comes from a probe that was
\* in flight when handleForceEvaluation cleared the cache (the results of
\* the probes that had settled before were cleared)
C32_ForcedPassUsesFreshProbes ==
  \A p \in Passes :
    orch[p].forced =>
      \A i \in 1..Len(pass[p].trace) :
        pass[p].trace[i].result.exec \notin orch[p].staleRuns

----------------------------------------------------------------------------
\* C33: every fetch probe in flight whose signal is not aborted has its own
\* controller in abortControllers, and abortControllers is empty when no
\* fetch probe is in flight
C33_RegistryMatchesInFlight ==
  /\ \A p \in Passes :
       /\ pass[p].pc = "await"
       /\ HasController(pass[p].inflight[1].type)
       /\ pass[p].inflight[1].exec \notin probeService.aborted
       => pass[p].inflight[1].exec \in Range(probeService.abortControllers)
  /\ (\A p \in Passes : pass[p].pc = "await" => ~HasController(pass[p].inflight[1].type))
       => probeService.abortControllers = <<>>

----------------------------------------------------------------------------
(* ProxyService.setActiveProfile with the storage-change listener that     *)
(* initialise installs.  A profile is named by its id; the storage         *)
(* requests resolve; browser.proxy.settings.set resolves or rejects.       *)

\* the profiles the options page has saved besides the default ones: a
\* manual profile without its manual configuration, a PAC profile, a PAC
\* profile without its URL
SavedProfiles == {"bare-manual", "pac", "bare-pac"}

\* profile.mode, and whether profile.manual and profile.pac?.url are there
ProfileOf(id) ==
  IF id = "direct" THEN [mode |-> "direct", manual |-> FALSE, pacUrl |-> FALSE]
  ELSE IF id = "system" THEN [mode |-> "system", manual |-> FALSE, pacUrl |-> FALSE]
  ELSE IF id = "work-proxy" THEN [mode |-> "manual", manual |-> TRUE, pacUrl |-> FALSE]
  ELSE IF id = "bare-manual" THEN [mode |-> "manual", manual |-> FALSE, pacUrl |-> FALSE]
  ELSE IF id = "pac" THEN [mode |-> "pac", manual |-> FALSE, pacUrl |-> TRUE]
  ELSE [mode |-> "pac", manual |-> FALSE, pacUrl |-> FALSE]

\* the ids that requests name: stored profiles of every mode and one id
\* that is not stored
RequestIds == {"direct", "work-proxy"} \cup SavedProfiles \cup {"gone"}

\* what browser.proxy.settings.set does: it resolves or it rejects
SettingsOutcomes == {TRUE, FALSE}

\* a setActiveProfile(id) call that has requested storageService.getProfile.
\* History fields: origin, who made the call; assigned, whether it has set
\* this.activeProfile; wrote, whether its updateState has written
NewSwitch(id, origin) ==
  [pc |-> "getProfile", id |-> id, origin |-> origin, currentState |-> <<>>,
   assigned |-> FALSE, wrote |-> FALSE]

FreeSlots_Switch == { s \in Slots : switches.calls[s].pc = "free" }

\* the slot a new call takes
NextSlot == CHOOSE s \in FreeSlots_Switch : \A q \in FreeSlots_Switch : s <= q

ProfileInit ==
  /\ rules = <<>>
  /\ now = 0
  /\ probeCache = <<>>
  /\ pass = [p \in Passes |-> IdlePass]
  /\ probeService = NewProbeService
  /\ state = DEFAULT_STATE
  /\ profiles = DEFAULT_PROFILES \cup SavedProfiles
  /\ activeProfile = "null"
  /\ badge = ""
  /\ orch = [p \in Passes |-> IdleCall]
  /\ edits = 0
  /\ applied = NotApplied
  /\ setCall = IdleSetCall
  /\ switches = NoSwitches

\* an evaluation pass or handleSetProfile calls setActiveProfile(id)
RequestSwitch ==
  /\ switches.requested < MaxRequests
  /\ FreeSlots_Switch # {}
  /\ \E id \in RequestIds :
       switches' = [switches EXCEPT !.calls[NextSlot] = NewSwitch(id, "request"),
                                    !.requested = @ + 1,
                                    !.last = id]
  /\ UNCHANGED <<rules, now, probeCache, pass, probeService, state, profiles,
                 activeProfile, badge, orch, edits, applied, setCall>>

\* const profile = await storageService.getProfile(profileId); throw if
\* there is none, else this.activeProfile = profile and updateState is called
SwitchGetProfile(s) ==
  /\ switches.calls[s].pc = "getProfile"
  /\ IF switches.calls[s].id \notin profiles
     THEN /\ switches' = [switches EXCEPT !.calls[s].pc = "thrown", !.threw = TRUE]
          /\ UNCHANGED activeProfile
     ELSE /\ activeProfile' = switches.calls[s].id
          /\ switches' = [switches EXCEPT !.calls[s].pc = "updateState.get",
                                          !.calls[s].assigned = TRUE]
  /\ UNCHANGED <<rules, now, probeCache, pass, probeService, state, profiles,
                 badge, orch, edits, applied, setCall>>

\* updateState: const currentState = await this.getState()
SwitchReads(s) ==
  /\ switches.calls[s].pc = "updateState.get"
  /\ switches' = [switches EXCEPT !.calls[s].pc = "updateState.set",
                                  !.calls[s].currentState = state]
  /\ UNCHANGED <<rules, now, probeCache, pass, probeService, state, profiles,
                 activeProfile, badge, orch, edits, applied, setCall>>

\* where setActiveProfile stands after updateState: setManualProxy and
\* setPacProxy throw before their first await when the configuration is
\* missing; the other modes await browser.proxy.settings.set
AfterUpdateState(id) ==
  LET profile == ProfileOf(id) IN
  IF profile.mode = "manual" /\ ~profile.manual THEN "thrown"
  ELSE IF profile.mode = "pac" /\ ~profile.pacUrl THEN "thrown"
  ELSE "settings"

\* the storage.onChanged listener of initialise calls setActiveProfile when
\* the stored state has changed and its activeProfileId is truthy
ListenerFires(oldState, newState) ==
  newState # oldState /\ newState.activeProfileId \notin {Undefined, ""}

\* updateState: await browser.storage.local.set({ state: newState }); the
\* call goes on to the proxy settings, and the change event calls the listener
SwitchWrites(s) ==
  /\ switches.calls[s].pc = "updateState.set"
  /\ LET c == switches.calls[s]
         newState == Merge(c.currentState, [activeProfileId |-> c.id])
         went == [c EXCEPT !.pc = AfterUpdateState(c.id), !.wrote = TRUE]
     IN  /\ state' = newState
         /\ IF ListenerFires(state, newState)
            THEN /\ FreeSlots_Switch # {}
                 /\ switches' = [switches EXCEPT
                                   !.calls = [@ EXCEPT ![s] = went,
                                                       ![NextSlot] = NewSwitch(newState.activeProfileId, "listener")],
                                   !.threw = @ \/ went.pc = "thrown"]
            ELSE switches' = [switches EXCEPT !.calls[s] = went,
                                              !.threw = @ \/ went.pc = "thrown"]
  /\ UNCHANGED <<rules, now, probeCache, pass, probeService, profiles,
                 activeProfile, badge, orch, edits, applied, setCall>>

\* browser.proxy.settings.set settles: setDirectProxy and setSystemProxy
\* catch a rejection, setManualProxy catches it and sets this.activeProfile
\* to the per-request copy of its profile, setPacProxy throws
SwitchSettings(s) ==
  /\ switches.calls[s].pc = "settings"
  /\ \E ok \in SettingsOutcomes :
       LET c == switches.calls[s]
           mode == ProfileOf(c.id).mode
       IN  /\ switches' = IF ~ok /\ mode = "pac"
                          THEN [switches EXCEPT !.calls[s].pc = "thrown", !.threw = TRUE]
                          ELSE [switches EXCEPT !.calls[s].pc = "returned"]
           /\ activeProfile' = IF ~ok /\ mode = "manual" THEN c.id ELSE activeProfile
  /\ UNCHANGED <<rules, now, probeCache, pass, probeService, state, profiles,
                 badge, orch, edits, applied, setCall>>

\* the promise of the call has settled
SwitchSettles(s) ==
  /\ switches.calls[s].pc \in {"returned", "thrown"}
  /\ switches' = [switches EXCEPT !.calls[s] = FreeSlot]
  /\ UNCHANGED <<rules, now, probeCache, pass, probeService, state, profiles,
                 activeProfile, badge, orch, edits, applied, setCall>>

\* the steps of the call in slot s
SwitchStep(s) ==
  \/ SwitchGetProfile(s)
  \/ SwitchReads(s)
  \/ SwitchWrites(s)
  \/ SwitchSettings(s)
  \/ SwitchSettles(s)

ProfileNext ==
  \/ RequestSwitch
  \/ \E s \in Slots : SwitchGetProfile(s)
  \/ \E s \in Slots : SwitchReads(s)
  \/ \E s \in Slots : SwitchWrites(s)
  \/ \E s \in Slots : SwitchSettings(s)
  \/ \E s \in Slots : SwitchSettles(s)

ProfileSpec == ProfileInit /\ [][ProfileNext]_vars

\* every pending call goes on: storage and the proxy settings answer
FairProfileSpec == ProfileSpec /\ \A s \in Slots : WF_vars(SwitchStep(s))

\* no call is pending, and the active profile in memory and the stored
\* activeProfileId are the last requested profile
Quiescent ==
  /\ \A s \in Slots : switches.calls[s].pc = "free"
  /\ switches.requested > 0 =>
       activeProfile = switches.last /\ state.activeProfileId = switches.last

\* C34: when no call throws, the calls come to an end and leave the last
\* requested profile active in memory and in the stored state
C34_SwitchingQuiesces == <>[](switches.threw \/ Quiescent)

----------------------------------------------------------------------------
\* C35: a call that has returned after writing lastRuleMatched = R.id has
\* called setActiveProfile(R.then.setActiveProfile) once, and that call
\* wrote the activeProfileId and did not throw
C35_RecordedMatchIsActivated ==
  \A p \in Passes :
    /\ orch[p].pc = "returned"
    /\ orch[p].writes # <<>>
    /\ orch[p].writes[1].lastRuleMatched # Undefined
    => /\ orch[p].sapCalls = << pass[p].ret[1].rule.then.setActiveProfile >>
       /\ ~orch[p].activationFailed
       /\ Len(orch[p].writes) = 2
       /\ orch[p].writes[2].activeProfileId = pass[p].ret[1].rule.then.setActiveProfile

----------------------------------------------------------------------------
\* C36: the steps that a call takes after its evaluation returned matched =
\* false change neither the active profile nor the stored activeProfileId
\* and lastRuleMatched, and the call never calls setActiveProfile
C36_NoMatchWritesCheckTimeOnly ==
  [][ \A p \in Passes :
        /\ orch[p].checkedAt # -1
        /\ ~orch[p].matched
        /\ orch'[p] # orch[p]
        => /\ activeProfile' = activeProfile
           /\ state'.activeProfileId = state.activeProfileId
           /\ state'.lastRuleMatched = state.lastRuleMatched
           /\ orch'[p].sapCalls = <<>> ]_vars

----------------------------------------------------------------------------
\* the keys `<rule.id>_<triggerType>` of the trigger keys of rule.when
TriggerKeysOf(rule) ==
  { ProbeKey(rule.id, rule.when.entries[k].type) : k \in 1..Len(rule.when.entries) }

\* C37: a pass that returns matched = true for rule R returns results with
\* at least one entry under a key `<R.id>_<triggerType>`, and every such
\* entry has success = true
C37_MatchHasSucceededEntries ==
  \A p \in Passes :
    Done(p) /\ Ret(p).matched =>
      LET R == Ret(p).rule
          keys == TriggerKeysOf(R) \cap DOMAIN Ret(p).results
      IN  /\ keys # {}
          /\ \A key \in keys : Ret(p).results[key].success

----------------------------------------------------------------------------
\* C38: a setActiveProfile call that throws has neither set
\* this.activeProfile nor written the stored activeProfileId
C38_ThrowLeavesProfile ==
  \A s \in Slots :
    switches.calls[s].pc = "thrown" =>
      ~switches.calls[s].assigned /\ ~switches.calls[s].wrote

----------------------------------------------------------------------------
\* the stopOnMatch values that the rules rs can be given, by rule id
FlagChoices(rs) == [ { rs[i].id : i \in 1..Len(rs) } -> BOOLEAN ]

\* the rules rs with the stopOnMatch values g
WithFlags(rs, g) == [i \in 1..Len(rs) |-> [rs[i] EXCEPT !.stopOnMatch = g[rs[i].id]]]

\* the pass L as it is when the evaluated rules have the stopOnMatch values g
FlaggedPass(L, g) ==
  [L EXCEPT !.input = WithFlags(@, g), !.enabledRules = WithFlags(@, g)]

\* the pass and the cache of S without the stopOnMatch values of the rules:
\* the probes made (trace, inflight), the results and the returned value
\* are left as they are
Unflagged(S) ==
  LET L == S.L
      none == [id \in { L.input[i].id : i \in 1..Len(L.input) } |-> FALSE]
      M == FlaggedPass(L, none)
  IN  [L |-> IF L.pc = "done" /\ L.ret[1].matched
             THEN [M EXCEPT !.ret[1].rule.stopOnMatch = FALSE]
             ELSE M,
       cache |-> S.cache]

\* C39: whatever stopOnMatch values the stored rules are given, a pass that
\* starts now, and a pass in flight whose probe settles now, make the same
\* probes, leave the same cache and return the same result
C39_StopOnMatchIgnored ==
  \A p \in Passes :
    /\ pass[p].pc = "idle" =>
         \A g \in FlagChoices(rules) :
           Unflagged(EvaluateRules(p, WithFlags(rules, g), DEFAULT_OPTIONS, probeCache, now))
             = Unflagged(EvaluateRules(p, rules, DEFAULT_OPTIONS, probeCache, now))
    /\ pass[p].pc = "await" =>
         \A g \in FlagChoices(pass[p].input) : \A net \in NetOutcomes :
           LET f == pass[p].inflight[1]
               result == AsyncResult(f.type, f.trigger, net, now, f.exec)
           IN  Unflagged(Resume(p, FlaggedPass(pass[p], g), probeCache, result, now))
                 = Unflagged(Resume(p, pass[p], probeCache, result, now))

\* a pass went past a rule with stopOnMatch that did not match and returned
\* the rule after it
C39_Witness ==
  \E p \in Passes :
    /\ Done(p) /\ Ret(p).matched
    /\ Len(pass[p].enabledRules) = 2
    /\ pass[p].enabledRules[1].stopOnMatch
    /\ Ret(p).rule = pass[p].enabledRules[2]
    /\ \E i \in 1..Len(pass[p].trace) :
         /\ pass[p].trace[i].ruleId = pass[p].enabledRules[1].id
         /\ ~pass[p].trace[i].result.success

====
